---------------------------- MODULE Spec2Model ----------------------------
(***************************************************************************)
(* A model of the JWW decoder (src/src/jww-parser.ts) over the byte cursor *)
(* of src/src/binary-reader.ts.  Buffers are sequences of bytes; strings   *)
(* are sequences of character codes (the inputs are ASCII, on which the    *)
(* Shift-JIS decoder maps each byte to the code point of the same value).  *)
(* A thrown "Unexpected end of file" is the reader field error = "eof";    *)
(* once a reader carries an error every later cursor operation leaves it   *)
(* as it is, which is how the exception passes over the rest of the        *)
(* function that was running.                                              *)
(***************************************************************************)
EXTENDS Integers, Sequences, FiniteSets, TLC

VARIABLES buf, strictMode, skipInvalidEntities, call, pc, offset, header,
          layers, i, entities, outcome, lastTag, termSeen, thrown, result, arg,
          starts, parsers, tasks, running, document, loaded, viewport, canvas,
          gestures, writer, controllers, listeners, handled, binds, events,
          ui, loads, effectDue, timers, selected

\* the JwwParser instances, the parse calls made on them and the call whose
\* synchronous part is running
taskVars == <<parsers, tasks, running>>

\* the fields of the JwwRenderer (document, viewport, canvas), the Document
\* the application loaded and the number of zoom and pan gestures made
viewVars == <<document, loaded, viewport, canvas, gestures>>

\* the ViewportControllers constructed on the canvas, the listeners
\* registered on the canvas and the window, how many listeners the last
\* event reached, the functions bound so far and the events dispatched
ctlVars == <<controllers, listeners, handled, binds, events>>

\* the JwwViewer component: its React state, the handleFileSelect calls in
\* flight, whether the document effect is due, the fitToView timers pending
\* and the file selected last
uiVars == <<ui, loads, effectDue, timers, selected>>

\* what the application and the tests keep besides: the JwwBinaryWriter,
\* the controllers and the viewer component
appVars == <<writer, ctlVars, uiVars>>

\* the state of a JwwParser call and of a JwwBinaryReader
coreVars == <<buf, strictMode, skipInvalidEntities, call, pc, offset, header,
              layers, i, entities, outcome, lastTag, termSeen, thrown, result, arg,
              starts>>

vars == <<coreVars, taskVars, viewVars, appVars>>

\* no controller is constructed and no viewer component is mounted
NoApplication ==
    /\ controllers = <<>>
    /\ listeners = <<>>
    /\ handled = 0
    /\ binds = 0
    /\ events = 0
    /\ ui = [type |-> "null"]
    /\ loads = <<>>
    /\ effectDue = FALSE
    /\ timers = 0
    /\ selected = [type |-> "null"]

\* ------------------------------------------------------------------ bounds
\* records in one entity stream
MaxRecords == 2
\* bytes cut from the end of a complete file
MaxTailCut == 26
\* lengths of the short buffers (prefixes of a file)
MaxPrefix == 32
\* bytes of the layer table kept in the buffers cut inside it
MaxLayerCut == 40

\* lengths and counts passed to readString, readBytes, readCString and skip
MaxCount == 3
\* boundaries passed to align
MaxBoundary == 4
\* length of the buffers the cursor operations are tried on
MaxCursorLen == 10
\* how far from each landmark the written integers range
MaxDelta == 2

\* points declared by the polyline records
MaxPoints == 3

\* ------------------------------------------------------- program constants
HEADER_STRIDE == 256
UNKNOWN_SKIP == 32
RECOVERY_SKIP == 64
LAYER_NAME_LENGTH == 32
FONT_NAME_LENGTH == 32
DEFAULT_COUNT == 16
MIN_VALIDATE_LENGTH == 8
MIN_REMAINING == 4
\* the default maxLength of readCString
CSTRING_MAX == 256

JWW_SIGNATURE == <<74, 87, 87>>
JWS_SIGNATURE == <<74, 87, 83>>
Jww_PREFIX == <<74, 119, 119>>
Data_CONTINUATION == <<68, 97, 116, 97>>
MS_GOTHIC == <<77, 83, 32, 71, 111, 116, 104, 105, 99>>
\* "Layer " followed by the decimal digits of n
RECURSIVE Digits(_)
Digits(n) == IF n < 10 THEN <<48 + n>> ELSE Digits(n \div 10) \o <<48 + (n % 10)>>
LayerName(n) == <<76, 97, 121, 101, 114, 32>> \o Digits(n)

Min(a, b) == IF a < b THEN a ELSE b

\* ------------------------------------------------ JwwBinaryWriter (tests)
writeByte(value) == <<value % 256>>
writeUInt16(value) == <<value % 256, (value \div 256) % 256>>
writeInt16(value) == IF value < 0 THEN writeUInt16(65536 + value) ELSE writeUInt16(value)
\* 32-bit values are written byte by byte with floored division, which on a
\* negative value gives the bytes of 0x100000000 + value (the model's integers
\* are 32 bits wide, so that sum is never formed)
writeUInt32(value) ==
    <<value % 256, (value \div 256) % 256, (value \div 65536) % 256,
      (value \div 16777216) % 256>>
writeInt32(value) == writeUInt32(value)
writerSkip(count) == [k \in 1..count |-> 0]
writeString(value, fixedLength) ==
    IF fixedLength # 0
    THEN [k \in 1..fixedLength |-> IF k <= Len(value) THEN value[k] ELSE 0]
    ELSE value \o <<0>>

\* ------------------------------------------------------ JwwBinaryReader
Reader(o) == [offset |-> o, error |-> "none"]
remainingAt(o) == Len(buf) - o
isEOFAt(o) == o >= Len(buf)

getUint8(o) == buf[o + 1]
getUint16(o) == buf[o + 1] + 256 * buf[o + 2]
\* a 16-bit read that takes the value unsigned
getInt16_unsigned(o) == getUint16(o)

getInt16(o) == IF getUint16(o) >= 32768 THEN getUint16(o) - 65536 ELSE getUint16(o)
\* the top byte is taken signed, the three low bytes unsigned
getInt32(o) ==
    buf[o + 1] + 256 * buf[o + 2] + 65536 * buf[o + 3]
    + 16777216 * (IF buf[o + 4] >= 128 THEN buf[o + 4] - 256 ELSE buf[o + 4])

\* a read of width w: checks first, advances only on success
readWidth(r, w) ==
    IF r.error # "none" THEN r
    ELSE IF r.offset + w > Len(buf) THEN [r EXCEPT !.error = "eof"]
    ELSE [r EXCEPT !.offset = @ + w]
readByte(r) == readWidth(r, 1)
readUInt16(r) == readWidth(r, 2)
readInt16(r) == readWidth(r, 2)
readInt32(r) == readWidth(r, 4)
readString(r, length) == readWidth(r, length)
readSByte(r) == readWidth(r, 1)
readUInt32(r) == readWidth(r, 4)
readFloat(r) == readWidth(r, 4)
readDouble(r) == readWidth(r, 8)
readBytes(r, length) == readWidth(r, length)

getInt8(o) == IF buf[o + 1] >= 128 THEN buf[o + 1] - 256 ELSE buf[o + 1]
\* an unsigned 32-bit value does not fit the model's integers: it is kept as
\* its two 16-bit halves
getUint32(o) == [high |-> getUint16(o + 2), low |-> getUint16(o)]
\* floating point values are kept as the bytes that encode them
getFloat32(o) == [float32 |-> SubSeq(buf, o + 1, o + 4)]
getFloat64(o) == [float64 |-> SubSeq(buf, o + 1, o + 8)]
bytesAt(o, length) == SubSeq(buf, o + 1, o + length)

\* the text readString(length) returns when it is called at offset o:
\* the bytes before the first NUL among the length bytes
RECURSIVE untilNul(_, _)
untilNul(o, length) ==
    IF length = 0 \/ getUint8(o) = 0 THEN <<>>
    ELSE <<getUint8(o)>> \o untilNul(o + 1, length - 1)
stringAt(o, length) == untilNul(o, length)

\* readCString, the loop: the bytes before the first NUL, the maxLength-th
\* byte or the end of the buffer, whichever comes first
RECURSIVE cstringLength(_, _)
cstringLength(o, maxLength) ==
    IF maxLength = 0 \/ o >= Len(buf) \/ getUint8(o) = 0 THEN 0
    ELSE 1 + cstringLength(o + 1, maxLength - 1)
cstringAt(o, maxLength) == bytesAt(o, cstringLength(o, maxLength))
\* readCString never checks the bounds: it steps over the byte after the text
\* whether or not there is one.  A cursor already beyond the end makes the
\* Uint8Array constructor throw a RangeError (error "range").
readCString(r, maxLength) ==
    IF r.error # "none" THEN r
    ELSE IF r.offset > Len(buf) THEN [r EXCEPT !.error = "range"]
    ELSE [r EXCEPT !.offset = @ + cstringLength(@, maxLength) + 1]

\* String.prototype.trim on character codes
WhiteSpace == {9, 10, 11, 12, 13, 32}
RECURSIVE trimStart(_)
trimStart(s) == IF s # <<>> /\ Head(s) \in WhiteSpace THEN trimStart(Tail(s)) ELSE s
RECURSIVE trimEnd(_)
trimEnd(s) ==
    IF s # <<>> /\ s[Len(s)] \in WhiteSpace THEN trimEnd(SubSeq(s, 1, Len(s) - 1)) ELSE s
trim(s) == trimEnd(trimStart(s))

\* setOffset: an offset outside 0..byteLength is refused and nothing moves
setOffset(r, o) ==
    IF r.error # "none" THEN r
    ELSE IF o < 0 \/ o > Len(buf) THEN [r EXCEPT !.error = "invalid-offset"]
    ELSE [r EXCEPT !.offset = o]

\* slice: checks first, then steps over the bytes handed to the new reader
slice(r, length) == readWidth(r, length)

\* skip advances first and checks afterwards
skip(r, bytes) ==
    IF r.error # "none" THEN r
    ELSE IF r.offset + bytes > Len(buf)
         THEN [offset |-> r.offset + bytes, error |-> "eof"]
         ELSE [r EXCEPT !.offset = @ + bytes]

\* align that stops at the end of the buffer instead of throwing
align_clamped(r, boundary) ==
    IF r.error # "none" THEN r
    ELSE IF r.offset % boundary # 0
         THEN [r EXCEPT !.offset = Min(Len(buf), @ + boundary - (@ % boundary))]
         ELSE r

\* align without the test of the remainder
align_always(r, boundary) ==
    IF r.error # "none" THEN r ELSE skip(r, boundary - (r.offset % boundary))

align(r, boundary) ==
    IF r.error # "none" THEN r
    ELSE IF r.offset % boundary # 0
         THEN skip(r, boundary - (r.offset % boundary))
         ELSE r

\* ------------------------------------------------ JwwCoordinateConverter
\* a conversion that keeps the stored integer
toMillimeters_raw(internalValue) == [num |-> internalValue, den |-> 1]

\* real numbers are kept as exact fractions
toMillimeters(internalValue) == [num |-> internalValue, den |-> 100]
\* internalAngle * PI / 180, kept as the coefficient of PI
toRadians(internalAngle) == [piNum |-> internalAngle, den |-> 180]


\* ------------------------------------------------------------- JwwParser
NoHeader ==
    [signature |-> <<>>, version |-> 0, scale |-> [num |-> 0, den |-> 1],
     offsetX |-> toMillimeters(0), offsetY |-> toMillimeters(0),
     angle |-> toRadians(0), layerCount |-> 0, groupCount |-> 0]

\* parseHeader, the signature check: the reader after it, with error
\* "signature" for "Invalid file signature"
checkSignature(r0) ==
    LET r1 == readString(r0, 3)
        sig3 == stringAt(r0.offset, 3)
    IN  IF r1.error # "none" THEN r1
        ELSE IF sig3 = Jww_PREFIX
        THEN LET r2 == readString(r1, 4)
             IN  IF r2.error # "none" THEN r2
                 ELSE IF stringAt(r1.offset, 4) = Data_CONTINUATION
                      THEN skip(r2, 1)
                      ELSE [r2 EXCEPT !.error = "signature"]
        ELSE IF sig3 # JWW_SIGNATURE /\ sig3 # JWS_SIGNATURE
             THEN [r1 EXCEPT !.error = "signature"]
             ELSE r1

\* the byte as it was read
orDefault_asRead(x) == x

\* a scale that divides whatever the denominator is
scaleOf_unchecked(scaleNum, scaleDen) == [num |-> scaleNum, den |-> scaleDen]

\* scaleDen !== 0 ? scaleNum / scaleDen : 1.0
scaleOf(scaleNum, scaleDen) ==
    IF scaleDen # 0 THEN [num |-> scaleNum, den |-> scaleDen]
    ELSE [num |-> 1, den |-> 1]

\* x || 16
orDefault(x) == IF x = 0 THEN DEFAULT_COUNT ELSE x

parseHeader(r0) ==
    LET rs == checkSignature(r0)
        sig3 == stringAt(r0.offset, 3)
        r1 == readUInt16(rs)
        r2 == skip(r1, 1)
        r3 == readInt32(r2)
        r4 == readInt32(r3)
        r5 == readInt32(r4)
        r6 == readInt32(r5)
        r7 == readInt16(r6)
        r8 == skip(r7, 2)
        r9 == readByte(r8)
        r10 == readByte(r9)
        r11 == align(r10, HEADER_STRIDE)
        scaleNum == getInt32(r2.offset)
        scaleDen == getInt32(r3.offset)
    IN  [r |-> r11,
         \* the reader before align, after the last field is read
         fields |-> r10,
         header |->
            IF r11.error # "none" THEN NoHeader
            ELSE [signature |-> IF sig3 = Jww_PREFIX THEN Jww_PREFIX ELSE sig3,
                  version |-> getUint16(rs.offset),
                  scale |-> scaleOf(scaleNum, scaleDen),
                  offsetX |-> toMillimeters(getInt32(r4.offset)),
                  offsetY |-> toMillimeters(getInt32(r5.offset)),
                  angle |-> toRadians(getInt16(r6.offset)),
                  layerCount |-> orDefault(getUint8(r8.offset)),
                  groupCount |-> orDefault(getUint8(r9.offset))]]

\* what a function that threw returns
Null == [type |-> "null"]

\* a default record that is hidden
defaultLayer_hidden(n) ==
    [number |-> n, name |-> LayerName(n), visible |-> FALSE, locked |-> FALSE,
     color |-> 0, lineType |-> 0]

\* parseLayers, the catch block's record
defaultLayer(n) ==
    [number |-> n, name |-> LayerName(n), visible |-> TRUE, locked |-> FALSE,
     color |-> 0, lineType |-> 0]

\* parseLayers, the try block of iteration n
readLayer(r0, n) ==
    LET r1 == readByte(r0)
        r2 == readByte(r1)
        r3 == readByte(r2)
        r4 == skip(r3, 1)
        r5 == readString(r4, LAYER_NAME_LENGTH)
        flags == getUint8(r0.offset)
        name == trim(stringAt(r4.offset, LAYER_NAME_LENGTH))
    IN  [r |-> r5,
         layer |->
            IF r5.error # "none" THEN Null ELSE
            [number |-> n,
             name |-> IF name = <<>> THEN LayerName(n) ELSE name,
             visible |-> flags % 2 # 0,
             locked |-> (flags \div 2) % 2 # 0,
             color |-> getUint8(r1.offset),
             lineType |-> getUint8(r2.offset)]]

\* a catch block that only logs
pushLayer_logOnly(t, n, ls) ==
    IF t.r.error # "none"
    THEN [r |-> t.r, layers |-> ls, caught |-> TRUE]
    ELSE [r |-> t.r, layers |-> Append(ls, t.layer), caught |-> FALSE]

\* parseLayers, the try/catch of iteration n once the try block has returned
\* or thrown t: the reader afterwards and the list after the push
pushLayer(t, n, ls) ==
    IF t.r.error # "none"
    THEN [r |-> t.r, layers |-> Append(ls, defaultLayer(n)), caught |-> TRUE]
    ELSE [r |-> t.r, layers |-> Append(ls, t.layer), caught |-> FALSE]

\* parseLayers, iteration n of the for loop
parseLayer(r0, n, ls) == pushLayer(readLayer(r0, n), n, ls)

\* ------------------------------------------------------ payload decoders
\* Each returns the reader after the payload and the entity; when the reader
\* carries an error the decoder threw and returned nothing (Null here).
parseLine(r0, baseProps) ==
    LET r1 == readInt32(r0)
        r2 == readInt32(r1)
        r3 == readInt32(r2)
        r4 == readInt32(r3)
    IN  [r |-> r4,
         entity |-> IF r4.error # "none" THEN Null ELSE
                    [type |-> "line", base |-> baseProps,
                     startX |-> toMillimeters(getInt32(r0.offset)),
                     startY |-> toMillimeters(getInt32(r1.offset)),
                     endX |-> toMillimeters(getInt32(r2.offset)),
                     endY |-> toMillimeters(getInt32(r3.offset))]]

parseCircle(r0, baseProps) ==
    LET r1 == readInt32(r0)
        r2 == readInt32(r1)
        r3 == readInt32(r2)
    IN  [r |-> r3,
         entity |-> IF r3.error # "none" THEN Null ELSE
                    [type |-> "circle", base |-> baseProps,
                     centerX |-> toMillimeters(getInt32(r0.offset)),
                     centerY |-> toMillimeters(getInt32(r1.offset)),
                     radius |-> toMillimeters(getInt32(r2.offset))]]

\* an arc record without its flags byte
parseArc_noFlags(r0, baseProps) ==
    LET r1 == readInt32(r0)
        r2 == readInt32(r1)
        r3 == readInt32(r2)
        r4 == readInt16(r3)
        r5 == readInt16(r4)
    IN  [r |-> r5,
         entity |-> IF r5.error # "none" THEN Null ELSE
                    [type |-> "arc", base |-> baseProps,
                     centerX |-> toMillimeters(getInt32(r0.offset)),
                     centerY |-> toMillimeters(getInt32(r1.offset)),
                     radius |-> toMillimeters(getInt32(r2.offset)),
                     startAngle |-> toRadians(getInt16(r3.offset)),
                     endAngle |-> toRadians(getInt16(r4.offset)),
                     clockwise |-> FALSE]]

parseArc(r0, baseProps) ==
    LET r1 == readInt32(r0)
        r2 == readInt32(r1)
        r3 == readInt32(r2)
        r4 == readInt16(r3)
        r5 == readInt16(r4)
        r6 == readByte(r5)
    IN  [r |-> r6,
         entity |-> IF r6.error # "none" THEN Null ELSE
                    [type |-> "arc", base |-> baseProps,
                     centerX |-> toMillimeters(getInt32(r0.offset)),
                     centerY |-> toMillimeters(getInt32(r1.offset)),
                     radius |-> toMillimeters(getInt32(r2.offset)),
                     startAngle |-> toRadians(getInt16(r3.offset)),
                     endAngle |-> toRadians(getInt16(r4.offset)),
                     clockwise |-> getUint8(r5.offset) % 2 # 0]]

\* ['left', 'center', 'right'][k] and ['bottom', 'middle', 'top'][k]
horizontalAlignOf(k) == IF k < 3 THEN <<"left", "center", "right">>[k + 1] ELSE "undefined"
verticalAlignOf(k) == IF k < 3 THEN <<"bottom", "middle", "top">>[k + 1] ELSE "undefined"

parseText(r0, baseProps) ==
    LET r1 == readInt32(r0)
        r2 == readInt32(r1)
        r3 == readInt16(r2)
        r4 == readInt16(r3)
        r5 == readInt16(r4)
        r6 == readByte(r5)
        r7 == readString(r6, FONT_NAME_LENGTH)
        r8 == readUInt16(r7)
        textLength == getUint16(r7.offset)
        r9 == IF r8.error # "none" THEN r8 ELSE readString(r8, textLength)
        alignFlags == getUint8(r5.offset)
        font == trim(stringAt(r6.offset, FONT_NAME_LENGTH))
    IN  [r |-> r9,
         entity |-> IF r9.error # "none" THEN Null ELSE
                    [type |-> "text", base |-> baseProps,
                     x |-> toMillimeters(getInt32(r0.offset)),
                     y |-> toMillimeters(getInt32(r1.offset)),
                     text |-> stringAt(r8.offset, textLength),
                     height |-> toMillimeters(getInt16(r2.offset)),
                     width |-> toMillimeters(getInt16(r3.offset)),
                     angle |-> toRadians(getInt16(r4.offset)),
                     font |-> IF font = <<>> THEN MS_GOTHIC ELSE font,
                     horizontalAlign |-> horizontalAlignOf(alignFlags % 4),
                     verticalAlign |-> verticalAlignOf((alignFlags \div 4) % 4)]]

parseEllipse(r0, baseProps) ==
    LET r1 == readInt32(r0)
        r2 == readInt32(r1)
        r3 == readInt32(r2)
        r4 == readInt32(r3)
        r5 == readInt16(r4)
    IN  [r |-> r5,
         entity |-> IF r5.error # "none" THEN Null ELSE
                    [type |-> "ellipse", base |-> baseProps,
                     centerX |-> toMillimeters(getInt32(r0.offset)),
                     centerY |-> toMillimeters(getInt32(r1.offset)),
                     radiusX |-> toMillimeters(getInt32(r2.offset)),
                     radiusY |-> toMillimeters(getInt32(r3.offset)),
                     rotation |-> toRadians(getInt16(r4.offset))]]

\* dimensionTypes[dimType] || 'linear'
dimensionTypeOf(dimType) ==
    IF dimType < 5
    THEN <<"linear", "aligned", "angular", "radius", "diameter">>[dimType + 1]
    ELSE "linear"

parseDimension(r0, baseProps) ==
    LET r1 == readInt32(r0)
        r2 == readInt32(r1)
        r3 == readInt32(r2)
        r4 == readInt32(r3)
        r5 == readInt32(r4)
        r6 == readInt32(r5)
        r7 == readInt32(r6)
        r8 == readByte(r7)
        r9 == readUInt16(r8)
        textLength == getUint16(r8.offset)
        r10 == IF r9.error # "none" \/ textLength = 0 THEN r9
               ELSE readString(r9, textLength)
        value == [num |-> getInt32(r6.offset), den |-> 1000]
    IN  [r |-> r10,
         entity |-> IF r10.error # "none" THEN Null ELSE
                    [type |-> "dimension", base |-> baseProps,
                     startX |-> toMillimeters(getInt32(r0.offset)),
                     startY |-> toMillimeters(getInt32(r1.offset)),
                     endX |-> toMillimeters(getInt32(r2.offset)),
                     endY |-> toMillimeters(getInt32(r3.offset)),
                     textX |-> toMillimeters(getInt32(r4.offset)),
                     textY |-> toMillimeters(getInt32(r5.offset)),
                     value |-> value,
                     \* value.toFixed(2) is kept as the value it formats
                     text |-> IF textLength > 0
                              THEN [string |-> stringAt(r9.offset, textLength)]
                              ELSE [toFixed2 |-> value],
                     dimensionType |-> dimensionTypeOf(getUint8(r7.offset))]]

\* parsePolyline, the point loop: count more points read from reader r0
RECURSIVE readPoints(_, _)
readPoints(r0, count) ==
    IF r0.error # "none" \/ count = 0 THEN [r |-> r0, points |-> <<>>]
    ELSE LET r1 == readInt32(r0)
             r2 == readInt32(r1)
             rest == readPoints(r2, count - 1)
         IN  IF r2.error # "none" THEN [r |-> r2, points |-> <<>>]
             ELSE [r |-> rest.r,
                   points |-> <<[x |-> toMillimeters(getInt32(r0.offset)),
                                 y |-> toMillimeters(getInt32(r1.offset))]>>
                              \o rest.points]

\* a point loop that stops one point early
parsePolyline_oneShort(r0, baseProps) ==
    LET r1 == readUInt16(r0)
        r2 == readByte(r1)
        r3 == skip(r2, 1)
        count == IF r1.error # "none" \/ getUint16(r0.offset) = 0 THEN 0
                 ELSE getUint16(r0.offset) - 1
        pts == readPoints(r3, count)
        r4 == IF r3.error # "none" THEN r3 ELSE pts.r
    IN  [r |-> r4,
         entity |-> IF r4.error # "none" THEN Null ELSE
                    [type |-> "polyline", base |-> baseProps,
                     points |-> pts.points,
                     closed |-> getUint8(r1.offset) % 2 # 0]]

parsePolyline(r0, baseProps) ==
    LET r1 == readUInt16(r0)
        r2 == readByte(r1)
        r3 == skip(r2, 1)
        pts == readPoints(r3, getUint16(r0.offset))
        r4 == IF r3.error # "none" THEN r3 ELSE pts.r
    IN  [r |-> r4,
         entity |-> IF r4.error # "none" THEN Null ELSE
                    [type |-> "polyline", base |-> baseProps,
                     points |-> pts.points,
                     closed |-> getUint8(r1.offset) % 2 # 0]]

\* the unknown-tag branch of parseEntity
skipUnknown(r0) == [r |-> skip(r0, UNKNOWN_SKIP), entity |-> Null]

\* a switch whose cases follow the order of the kinds in types.ts
dispatch_typeOrder(r7, baseProps, entityType) ==
    CASE entityType = 0 -> [r |-> r7, entity |-> Null]
      [] entityType = 1 -> parseLine(r7, baseProps)
      [] entityType = 2 -> parseCircle(r7, baseProps)
      [] entityType = 3 -> parseArc(r7, baseProps)
      [] entityType = 4 -> parseEllipse(r7, baseProps)
      [] entityType = 5 -> parseText(r7, baseProps)
      [] entityType = 6 -> parseDimension(r7, baseProps)
      [] entityType = 7 -> parsePolyline(r7, baseProps)
      [] OTHER -> skipUnknown(r7)

\* parseEntity, the switch on the tag
dispatch(r7, baseProps, entityType) ==
    CASE entityType = 0 -> [r |-> r7, entity |-> Null]
      [] entityType = 1 -> parseLine(r7, baseProps)
      [] entityType = 2 -> parseCircle(r7, baseProps)
      [] entityType = 3 -> parseArc(r7, baseProps)
      [] entityType = 4 -> parseText(r7, baseProps)
      [] entityType = 5 -> parseEllipse(r7, baseProps)
      [] entityType = 6 -> parseDimension(r7, baseProps)
      [] entityType = 7 -> parsePolyline(r7, baseProps)
      [] OTHER -> skipUnknown(r7)

tagged(p, entityType) == [r |-> p.r, entity |-> p.entity, tag |-> entityType]

\* parseEntity: the reader afterwards, the entity (Null for a terminator or
\* an unknown tag) and the tag read (-1 when the common header was not read)
parseEntity(r0) ==
    LET r1 == readByte(r0)
        r2 == readByte(r1)
        r3 == readByte(r2)
        r4 == readByte(r3)
        r5 == readUInt16(r4)
        r6 == readByte(r5)
        r7 == skip(r6, 1)
        baseProps == [layer |-> getUint8(r1.offset),
                      color |-> getUint8(r2.offset),
                      lineType |-> getUint8(r3.offset),
                      lineWidth |-> [num |-> getUint16(r4.offset), den |-> 100],
                      group |-> getUint8(r5.offset)]
    IN  IF r7.error # "none" THEN [r |-> r7, entity |-> Null, tag |-> -1]
        ELSE tagged(dispatch(r7, baseProps, getUint8(r0.offset)), getUint8(r0.offset))

\* a recovery skip of the unknown-tag width
recoverySkip_short(rem) == Min(UNKNOWN_SKIP, rem)

\* the width the catch block of parseEntities skips
recoverySkip(rem) == Min(RECOVERY_SKIP, rem)

\* a loop that runs until the end of the buffer
moreEntities_untilEOF(o) == ~isEOFAt(o)

\* the loop condition of parseEntities
moreEntities(o) == ~isEOFAt(o) /\ remainingAt(o) > MIN_REMAINING

\* a push at the front of the list
pushEntity_front(ents, entity) ==
    IF entity # Null THEN <<entity>> \o ents ELSE ents

\* if (entity) entities.push(entity)
pushEntity(ents, entity) ==
    IF entity # Null THEN Append(ents, entity) ELSE ents

\* a catch block that skips whatever the option says
tryCatch_alwaysSkip(e, ents, skipInvalid) ==
    IF e.r.error = "none"
    THEN [offset |-> e.r.offset,
          entities |-> pushEntity(ents, e.entity),
          failed |-> FALSE,
          outcome |-> IF e.entity # Null THEN "entity"
                      ELSE IF e.tag = 0 THEN "terminator" ELSE "unknown",
          tag |-> e.tag]
    ELSE [offset |-> e.r.offset + Min(RECOVERY_SKIP, remainingAt(e.r.offset)),
          entities |-> ents, failed |-> FALSE, outcome |-> "recovered",
          tag |-> e.tag]

\* parseEntities, the body of the loop once parseEntity has returned or
\* thrown e: what the iteration leaves behind.  failed means the error left
\* parseEntities.
tryCatch(e, ents, skipInvalid) ==
    IF e.r.error = "none"
    THEN [offset |-> e.r.offset,
          entities |-> pushEntity(ents, e.entity),
          failed |-> FALSE,
          outcome |-> IF e.entity # Null THEN "entity"
                      ELSE IF e.tag = 0 THEN "terminator" ELSE "unknown",
          tag |-> e.tag]
    ELSE IF skipInvalid
    THEN [offset |-> skip(Reader(e.r.offset),
                          recoverySkip(remainingAt(e.r.offset))).offset,
          entities |-> ents,
          failed |-> skip(Reader(e.r.offset),
                          recoverySkip(remainingAt(e.r.offset))).error # "none",
          outcome |-> "recovered", tag |-> e.tag]
    ELSE [offset |-> e.r.offset, entities |-> ents, failed |-> TRUE,
          outcome |-> "threw", tag |-> e.tag]

\* an iteration whose catch block puts the cursor back where it started
parseEntitiesStep_rewind(o, ents, skipInvalid) ==
    IF parseEntity(Reader(o)).r.error # "none" /\ skipInvalid
    THEN [offset |-> o, entities |-> ents, failed |-> FALSE,
          outcome |-> "recovered", tag |-> parseEntity(Reader(o)).tag]
    ELSE tryCatch(parseEntity(Reader(o)), ents, skipInvalid)

\* parseEntities, one iteration of the loop started at offset o
parseEntitiesStep(o, ents, skipInvalid) ==
    tryCatch(parseEntity(Reader(o)), ents, skipInvalid)

\* a catch block that wraps whatever the mode is
parseCatch_alwaysWrap(error, strict) == [error |-> error, wrapped |-> TRUE]

\* the catch block of parse: strict mode rethrows, otherwise the error is
\* wrapped in "Failed to parse JWW file: ..."
parseCatch(error, strict) == [error |-> error, wrapped |-> ~strict]

\* parseLayers: the loop from iteration n on, the cursor at o and ls pushed
RECURSIVE parseLayers(_, _, _, _)
parseLayersTo(t, n, count) == parseLayers(t.r.offset, n, count, t.layers)
parseLayers(o, n, count, ls) ==
    IF n < count THEN parseLayersTo(parseLayer(Reader(o), n, ls), n + 1, count)
    ELSE [offset |-> o, layers |-> ls]

\* an entity list kept from one call to the next
newEntities_shared(earlier) == earlier

\* const entities: JwwEntity[] = [], whatever an earlier call left in its own
newEntities(earlier) == <<>>

\* parseEntities: the loop from the cursor at o on, ents pushed
RECURSIVE parseEntities(_, _, _)
parseEntitiesTo(st, skipInvalid) ==
    IF st.failed THEN [failed |-> TRUE, entities |-> st.entities]
    ELSE parseEntities(st.offset, st.entities, skipInvalid)
parseEntities(o, ents, skipInvalid) ==
    IF moreEntities(o)
    THEN parseEntitiesTo(parseEntitiesStep(o, ents, skipInvalid), skipInvalid)
    ELSE [failed |-> FALSE, entities |-> ents]

\* parse, the try block once the header is read: the document returned or
\* the error raised
documentOf(hd, ls, es, strict) ==
    IF es.failed THEN [status |-> "failed", thrown |-> parseCatch("eof", strict)]
    ELSE [status |-> "done", header |-> hd, layers |-> ls, entities |-> es.entities]
parseBody(hd, ly, strict, skipInvalid) ==
    documentOf(hd, ly.layers, parseEntities(ly.offset, <<>>, skipInvalid), strict)
\* parse on the whole buffer, run from start to end by itself
parseFrom(h, strict, skipInvalid) ==
    IF h.r.error # "none"
    THEN [status |-> "failed", thrown |-> parseCatch(h.r.error, strict)]
    ELSE parseBody(h.header, parseLayers(h.r.offset, 0, h.header.layerCount, <<>>),
                   strict, skipInvalid)
parse(strict, skipInvalid) == parseFrom(parseHeader(Reader(0)), strict, skipInvalid)

\* validate without the minimum length
validate_noMinimum ==
    LET r1 == readString(Reader(0), 3)
        r2 == readString(r1, 4)
    IN  IF r1.error # "none" THEN [value |-> FALSE, r |-> r1]
        ELSE IF stringAt(0, 3) = JWW_SIGNATURE \/ stringAt(0, 3) = JWS_SIGNATURE
             THEN [value |-> TRUE, r |-> r1]
        ELSE IF stringAt(0, 3) = Jww_PREFIX
             THEN [value |-> r2.error = "none" /\ stringAt(3, 4) = Data_CONTINUATION,
                   r |-> r2]
        ELSE [value |-> FALSE, r |-> r1]

\* JwwParser.validate: the value returned and the reader it leaves
validate ==
    IF Len(buf) < MIN_VALIDATE_LENGTH THEN [value |-> FALSE, r |-> Reader(0)]
    ELSE LET r1 == readString(Reader(0), 3)
             r2 == readString(r1, 4)
         IN  IF r1.error # "none" THEN [value |-> FALSE, r |-> r1]
             ELSE IF stringAt(0, 3) = JWW_SIGNATURE \/ stringAt(0, 3) = JWS_SIGNATURE
                  THEN [value |-> TRUE, r |-> r1]
             ELSE IF stringAt(0, 3) = Jww_PREFIX
                  THEN [value |-> r2.error = "none" /\ stringAt(3, 4) = Data_CONTINUATION,
                        r |-> r2]
             ELSE [value |-> FALSE, r |-> r1]

\* JwwParser.getFileInfo: the reader it leaves and the object it returns;
\* nothing catches what the two reads throw
getFileInfo ==
    LET r1 == readString(Reader(0), 3)
        r2 == readUInt16(r1)
    IN  [r |-> r2,
         info |-> IF r2.error # "none" THEN Null ELSE
                  [signature |-> stringAt(0, 3), version |-> getUint16(r1.offset),
                   fileSize |-> Len(buf)]]

\* ---------------------------------------------------------------- inputs
\* Files are built the way the test suite builds them (createJwwHeader,
\* the layer loop, generateTest*), then cut short.
XXX_SIGNATURE == <<88, 88, 88>>
JwwData_MAGIC == Jww_PREFIX \o Data_CONTINUATION \o <<46>>
JwwDatX_MAGIC == Jww_PREFIX \o <<68, 97, 116, 88, 46>>
Magics == {JWW_SIGNATURE, JWS_SIGNATURE, JwwData_MAGIC, XXX_SIGNATURE, JwwDatX_MAGIC}
LayerCountBytes == {0, 1, 2}
GroupCountBytes == {0, 3, DEFAULT_COUNT}

\* the header with the scale given as numerator and denominator
scaledHeader(magic, scaleNum, scaleDen, layerCount, groupCount) ==
    LET fields == magic \o writeUInt16(11) \o writeByte(0) \o writeInt32(scaleNum)
                  \o writeInt32(scaleDen) \o writeInt32(1000) \o writeInt32(-2000)
                  \o writeInt16(45) \o writeUInt16(0) \o writeByte(layerCount)
                  \o writeByte(groupCount)
    IN  fields \o writerSkip(HEADER_STRIDE - Len(fields))
createJwwHeader(magic, layerCount, groupCount) ==
    scaledHeader(magic, 1, 2, layerCount, groupCount)
ScaleNumerators == {-3, 0, 1, 7}
ScaleDenominators == {-2, 0, 1, 2}

RECURSIVE layerTable(_)
layerTable(n) ==
    IF n = 0 THEN <<>>
    ELSE layerTable(n - 1) \o writeByte(2) \o writeByte(7) \o writeByte(3)
         \o writeByte(0) \o writeString(LayerName(n - 1), LAYER_NAME_LENGTH)

recordHeader(tag, layer, color, lineType, lineWidth, group) ==
    writeByte(tag) \o writeByte(layer) \o writeByte(color) \o writeByte(lineType)
    \o writeUInt16(lineWidth) \o writeByte(group) \o writeByte(0)
commonHeader(tag, layer, color) == recordHeader(tag, layer, color, 0, 100, 0)
\* a line on layer n whose other common properties also depend on n
layeredLine(n) ==
    recordHeader(1, n, n * 2, n + 4, 100 * (n + 1), n + 8) \o writeInt32(0)
    \o writeInt32(0) \o writeInt32(1000 * (n + 1)) \o writeInt32(1000 * (n + 1))

generateTestLine ==
    commonHeader(1, 0, 1) \o writeInt32(100) \o writeInt32(-200)
    \o writeInt32(10000) \o writeInt32(10000)
generateTestCircle ==
    commonHeader(2, 0, 2) \o writeInt32(0) \o writeInt32(0) \o writeInt32(2500)
generateTestArc ==
    commonHeader(3, 0, 3) \o writeInt32(0) \o writeInt32(0) \o writeInt32(2500)
    \o writeInt16(0) \o writeInt16(90) \o writeByte(0)
\* a text record that declares declared bytes of text and carries text
textRecord(text, declared) ==
    commonHeader(4, 0, 1) \o writeInt32(0) \o writeInt32(0) \o writeInt16(2000)
    \o writeInt16(1000) \o writeInt16(0) \o writeByte(0)
    \o writeString(MS_GOTHIC, FONT_NAME_LENGTH) \o writeUInt16(declared) \o text
\* the text "Test" with the given alignment flags
alignedText(flags) ==
    commonHeader(4, 0, 1) \o writeInt32(0) \o writeInt32(0) \o writeInt16(2000)
    \o writeInt16(1000) \o writeInt16(0) \o writeByte(flags)
    \o writeString(MS_GOTHIC, FONT_NAME_LENGTH) \o writeUInt16(4)
    \o writeString(<<84, 101, 115, 116>>, 4)
AlignFlagBytes == 0..255
TextStreams == {alignedText(flags) : flags \in AlignFlagBytes}
generateTestText == textRecord([k \in 1..16 |-> 64 + k], 16)
truncatedText == textRecord([k \in 1..70 |-> 32 + k], 100)
generateTestEllipse ==
    commonHeader(5, 0, 4) \o writeInt32(0) \o writeInt32(0) \o writeInt32(5000)
    \o writeInt32(2500) \o writeInt16(30)
generateTestDimension ==
    commonHeader(6, 0, 1) \o writeInt32(0) \o writeInt32(0) \o writeInt32(10000)
    \o writeInt32(0) \o writeInt32(5000) \o writeInt32(500) \o writeInt32(100000)
    \o writeByte(0) \o writeUInt16(0)
\* a dimension record that carries its own text
dimensionRecord(text) ==
    commonHeader(6, 0, 1) \o writeInt32(0) \o writeInt32(0) \o writeInt32(10000)
    \o writeInt32(0) \o writeInt32(5000) \o writeInt32(500) \o writeInt32(100000)
    \o writeByte(1) \o writeUInt16(Len(text)) \o text
DimensionStreams ==
    {dimensionRecord(<<53, 32, 109>>) \o generateTestLine,
     dimensionRecord(<<53, 32, 109>>)}
generateTestPolyline ==
    commonHeader(7, 0, 5) \o writeUInt16(3) \o writeByte(1) \o writeByte(0)
    \o writeInt32(0) \o writeInt32(0) \o writeInt32(5000) \o writeInt32(0)
    \o writeInt32(5000) \o writeInt32(5000)
\* the coordinates of n points, the j-th at (1000 j, -500 j)
RECURSIVE pointBytes(_)
pointBytes(n) ==
    IF n = 0 THEN <<>>
    ELSE pointBytes(n - 1) \o writeInt32(1000 * n) \o writeInt32(-500 * n)
\* a polyline record that declares pointCount points and carries present
polylineRecord(pointCount, flags, present) ==
    commonHeader(7, 0, 1) \o writeUInt16(pointCount) \o writeByte(flags)
    \o writeByte(0) \o pointBytes(present)
PolylineFlagBytes == {0, 1, 2, 255}
PolylineStreams ==
    {polylineRecord(n, f, present) :
        n \in 0..MaxPoints, f \in PolylineFlagBytes, present \in 0..MaxPoints}
    \cup {polylineRecord(2, 1, 2) \o polylineRecord(0, 0, 0),
          polylineRecord(3, 0, 1) \o generateTestLine}
terminatorRecord == commonHeader(0, 0, 0)
\* a record with tag 0xFF and body bytes after its common header
unknownRecord(body) == commonHeader(255, 0, 1) \o [k \in 1..body |-> 170]

CoreRecords ==
    {generateTestLine, terminatorRecord, unknownRecord(UNKNOWN_SKIP),
     unknownRecord(0), generateTestText, truncatedText}
OtherRecords ==
    {generateTestCircle, generateTestArc, generateTestEllipse,
     generateTestDimension, generateTestPolyline}

RECURSIVE StreamsOf(_)
StreamsOf(n) ==
    IF n = 0 THEN {<<>>}
    ELSE LET shorter == StreamsOf(n - 1)
         IN  shorter \cup {s \o rec : s \in shorter, rec \in CoreRecords}
Streams ==
    StreamsOf(MaxRecords) \cup OtherRecords
    \cup {generateTestLine \o generateTestCircle \o truncatedText,
          layeredLine(1) \o layeredLine(2)}
    \cup {rec \o generateTestLine : rec \in OtherRecords}

\* header, layer table, entity stream and the single terminator byte
GroupFile(magic, layerCount, groupCount, stream) ==
    createJwwHeader(magic, layerCount, groupCount)
    \o layerTable(orDefault(layerCount)) \o stream \o writeByte(0)
File(magic, layerCount, stream) ==
    GroupFile(magic, layerCount, DEFAULT_COUNT, stream)

Prefixes(f, lengths) == {SubSeq(f, 1, n) : n \in {m \in lengths : 0 <= m /\ m <= Len(f)}}
TailCuts(f) == Prefixes(f, (Len(f) - MaxTailCut)..Len(f))

HeaderFiles == {File(m, c, generateTestLine) : m \in Magics, c \in LayerCountBytes}
StreamFiles == {File(JWW_SIGNATURE, 1, s) : s \in Streams}
\* complete files with either signature width and every pair of count bytes
GroupFiles ==
    {GroupFile(m, c, g, generateTestLine) :
        m \in {JWW_SIGNATURE, JwwData_MAGIC}, c \in LayerCountBytes,
        g \in GroupCountBytes}

\* complete files with every pair of scale numerator and denominator
ScaleFiles ==
    {scaledHeader(JWW_SIGNATURE, n, d, 1, DEFAULT_COUNT) \o layerTable(1)
     \o generateTestLine \o writeByte(0) :
        n \in ScaleNumerators, d \in ScaleDenominators}

\* complete files around the streams that vary one kind of record
ExtraStreams == PolylineStreams \cup TextStreams \cup DimensionStreams
ExtraFiles == {File(JWW_SIGNATURE, 1, s) : s \in ExtraStreams}

\* a file whose entity stream is one line, the terminator tag byte and k
\* padding bytes of zero (createJwwFileWithEntity for k = 0)
MaxPadding == 8
PaddedFile(k) ==
    File(JWW_SIGNATURE, 1, generateTestLine \o writeByte(0) \o writerSkip(k))
PaddedFiles == {PaddedFile(k) : k \in 0..MaxPadding}

Buffers ==
    UNION {TailCuts(f) : f \in HeaderFiles \cup StreamFiles}
    \cup PaddedFiles
    \cup UNION {Prefixes(f, (0..MaxPrefix) \cup {HEADER_STRIDE - 1}
                            \cup (HEADER_STRIDE..(HEADER_STRIDE + MaxLayerCut)))
                : f \in HeaderFiles}
    \cup GroupFiles
    \cup ExtraFiles
    \cup ScaleFiles

\* the integers written and read back: those within MaxDelta of the two
\* extremes, of zero and of the byte boundaries
Near(c) == (c - MaxDelta)..(c + MaxDelta)
Int16Values ==
    {v \in Near(-32768) \cup Near(-256) \cup Near(0) \cup Near(256) \cup Near(32767) :
        -32768 <= v /\ v <= 32767}
UInt16Values ==
    {v \in Near(0) \cup Near(256) \cup Near(32768) \cup Near(65535) :
        0 <= v /\ v <= 65535}
Int32Values ==
    {-2147483647 - 1 + d : d \in 0..MaxDelta} \cup Near(-16777216) \cup Near(-65536)
    \cup Near(0) \cup Near(65536) \cup {2147483647 - d : d \in 0..MaxDelta}
\* two NUL-terminated texts around a 32-bit integer
CursorSample ==
    writeString(<<65, 66>>, 0) \o writeInt32(-2) \o writeString(<<67, 68>>, 0)
\* the buffers a cursor is constructed on by itself
CursorBuffers ==
    {writeInt16(v) : v \in Int16Values} \cup {writeUInt16(v) : v \in UInt16Values}
    \cup {writeInt32(v) : v \in Int32Values}
    \cup Prefixes(CursorSample, 0..MaxCursorLen)

\* --------------------------------------------------------- state machine
NoThrow == [error |-> "none", wrapped |-> FALSE]

Init ==
    /\ call \in {"parse", "validate", "getFileInfo", "cursor"}
    /\ buf \in IF call = "cursor" THEN CursorBuffers ELSE Buffers
    /\ strictMode \in BOOLEAN
    /\ skipInvalidEntities \in BOOLEAN
    \* validate and getFileInfo are static: they have no options
    /\ call # "parse" => (~strictMode /\ skipInvalidEntities)
    \* "cursor": a JwwBinaryReader is constructed and used on its own
    /\ pc = IF call = "cursor" THEN "reading" ELSE "start"
    /\ offset = 0
    /\ header = NoHeader
    /\ layers = <<>>
    /\ i = 0
    /\ entities = <<>>
    /\ outcome = "none"
    /\ lastTag = -1
    /\ termSeen = FALSE
    /\ thrown = NoThrow
    /\ result = "none"
    /\ arg = 0
    /\ starts = <<>>
    \* one call on one instance, running from the start
    /\ parsers = <<>>
    /\ tasks = <<>>
    /\ running = 0
    \* no renderer is constructed
    /\ document = Null
    /\ loaded = Null
    /\ viewport = Null
    /\ canvas = Null
    /\ gestures = 0
    /\ writer = Null
    /\ NoApplication

\* parse: const header = this.parseHeader(reader)
ParseHeader ==
    /\ pc = "start" /\ call = "parse"
    /\ LET h == parseHeader(Reader(0))
       IN  /\ offset' = h.r.offset
           /\ IF h.r.error = "none"
              THEN /\ header' = h.header
                   /\ pc' = "layers"
                   /\ thrown' = thrown
              ELSE /\ header' = header
                   /\ pc' = "failed"
                   /\ thrown' = parseCatch(h.r.error, strictMode)
    /\ outcome' = "header"
    /\ UNCHANGED <<appVars, viewVars, taskVars, arg, starts, buf, strictMode, skipInvalidEntities, call, layers, i,
                   entities, lastTag, termSeen, result>>

\* the state an iteration of parseLayers that left t behind leads to
LayerStepTo(t) ==
    /\ offset' = t.r.offset
    /\ layers' = t.layers
    /\ outcome' = IF t.caught THEN "layer-default" ELSE "layer"

\* parseLayers: one iteration of the for loop
ParseLayer ==
    /\ pc = "layers" /\ i < header.layerCount
    /\ LayerStepTo(parseLayer(Reader(offset), i, layers))
    /\ i' = i + 1
    /\ UNCHANGED <<appVars, viewVars, taskVars, arg, starts, buf, strictMode, skipInvalidEntities, call, pc, header,
                   entities, lastTag, termSeen, thrown, result>>

\* parseLayers returns and parseEntities starts
LayersDone ==
    /\ pc = "layers" /\ ~(i < header.layerCount)
    /\ pc' = "entities"
    /\ UNCHANGED <<appVars, viewVars, taskVars, arg, starts, buf, strictMode, skipInvalidEntities, call, offset, header,
                   layers, i, entities, outcome, lastTag, termSeen, thrown, result>>

\* the state an iteration of parseEntities that left st behind leads to
EntityStepTo(st) ==
    /\ offset' = st.offset
    /\ entities' = st.entities
    \* history: where the record of each appended entity starts
    /\ starts' = IF st.outcome = "entity" THEN Append(starts, offset) ELSE starts
    /\ outcome' = st.outcome
    /\ lastTag' = st.tag
    /\ termSeen' = (termSeen \/ st.outcome = "terminator")
    /\ IF st.failed
       THEN pc' = "failed" /\ thrown' = parseCatch("eof", strictMode)
       ELSE pc' = pc /\ thrown' = thrown

\* parseEntities: one iteration of the while loop
ParseEntity ==
    /\ pc = "entities" /\ moreEntities(offset)
    /\ EntityStepTo(parseEntitiesStep(offset, entities, skipInvalidEntities))
    /\ UNCHANGED <<appVars, viewVars, taskVars, arg, buf, strictMode, skipInvalidEntities, call, header, layers,
                   i, result>>

\* parseEntities returns and parse returns the document
EntitiesDone ==
    /\ pc = "entities" /\ ~moreEntities(offset)
    /\ pc' = "done"
    /\ result' = "document"
    /\ UNCHANGED <<appVars, viewVars, taskVars, arg, starts, buf, strictMode, skipInvalidEntities, call, offset, header,
                   layers, i, entities, outcome, lastTag, termSeen, thrown>>

\* JwwParser.validate(buffer)
Validate ==
    /\ pc = "start" /\ call = "validate"
    /\ pc' = "returned"
    /\ result' = validate.value
    /\ offset' = validate.r.offset
    /\ UNCHANGED <<appVars, viewVars, taskVars, arg, starts, buf, strictMode, skipInvalidEntities, call, header, layers,
                   i, entities, outcome, lastTag, termSeen, thrown>>

\* the state a call of getFileInfo that left g behind leads to
FileInfoStepTo(g) ==
    /\ offset' = g.r.offset
    /\ IF g.r.error = "none"
       THEN pc' = "returned" /\ result' = g.info /\ thrown' = thrown
       ELSE /\ pc' = "failed" /\ result' = result
            /\ thrown' = [error |-> g.r.error, wrapped |-> FALSE]

\* JwwParser.getFileInfo(buffer)
GetFileInfo ==
    /\ pc = "start" /\ call = "getFileInfo"
    /\ FileInfoStepTo(getFileInfo)
    /\ UNCHANGED <<appVars, viewVars, taskVars, arg, starts, buf, strictMode, skipInvalidEntities, call, header, layers,
                   i, entities, outcome, lastTag, termSeen>>

\* the state a cursor operation op(a) that left reader r behind and, if it
\* returned, returned value leads to
CursorStepTo(op, a, r, value) ==
    /\ pc = "reading"
    /\ offset' = r.offset
    /\ outcome' = op
    /\ arg' = a
    /\ IF r.error = "none"
       THEN pc' = pc /\ result' = value /\ thrown' = thrown
       ELSE /\ pc' = "failed" /\ result' = "none"
            /\ thrown' = [error |-> r.error, wrapped |-> FALSE]
    /\ UNCHANGED <<appVars, viewVars, taskVars, starts, buf, strictMode, skipInvalidEntities, call, header, layers,
                   i, entities, lastTag, termSeen>>

ReadByte ==
    /\ call = "cursor"
    /\ CursorStepTo("readByte", 1, readByte(Reader(offset)), getUint8(offset))
ReadSByte ==
    /\ call = "cursor"
    /\ CursorStepTo("readSByte", 1, readSByte(Reader(offset)), getInt8(offset))
ReadUInt16 ==
    /\ call = "cursor"
    /\ CursorStepTo("readUInt16", 2, readUInt16(Reader(offset)), getUint16(offset))
ReadInt16 ==
    /\ call = "cursor"
    /\ CursorStepTo("readInt16", 2, readInt16(Reader(offset)), getInt16(offset))
ReadUInt32 ==
    /\ call = "cursor"
    /\ CursorStepTo("readUInt32", 4, readUInt32(Reader(offset)), getUint32(offset))
ReadInt32 ==
    /\ call = "cursor"
    /\ CursorStepTo("readInt32", 4, readInt32(Reader(offset)), getInt32(offset))
ReadFloat ==
    /\ call = "cursor"
    /\ CursorStepTo("readFloat", 4, readFloat(Reader(offset)), getFloat32(offset))
ReadDouble ==
    /\ call = "cursor"
    /\ CursorStepTo("readDouble", 8, readDouble(Reader(offset)), getFloat64(offset))
ReadString(length) ==
    /\ call = "cursor"
    /\ CursorStepTo("readString", length, readString(Reader(offset), length),
                    stringAt(offset, length))
ReadCString(maxLength) ==
    /\ call = "cursor"
    /\ CursorStepTo("readCString", maxLength, readCString(Reader(offset), maxLength),
                    cstringAt(offset, maxLength))
ReadBytes(length) ==
    /\ call = "cursor"
    /\ CursorStepTo("readBytes", length, readBytes(Reader(offset), length),
                    bytesAt(offset, length))
SetOffset(o) ==
    /\ call = "cursor"
    /\ CursorStepTo("setOffset", o, setOffset(Reader(offset), o), "undefined")
Slice(length) ==
    /\ call = "cursor"
    /\ CursorStepTo("slice", length, slice(Reader(offset), length),
                    bytesAt(offset, length))
Skip(bytes) ==
    /\ call = "cursor"
    /\ CursorStepTo("skip", bytes, skip(Reader(offset), bytes), "undefined")
Align(boundary) ==
    /\ call = "cursor"
    /\ CursorStepTo("align", boundary, align(Reader(offset), boundary), "undefined")

Next ==
    \/ ParseHeader
    \/ ParseLayer
    \/ LayersDone
    \/ ParseEntity
    \/ EntitiesDone
    \/ Validate
    \/ GetFileInfo
    \/ ReadByte
    \/ ReadSByte
    \/ ReadUInt16
    \/ ReadInt16
    \/ ReadUInt32
    \/ ReadInt32
    \/ ReadFloat
    \/ ReadDouble
    \/ \E length \in 0..MaxCount : ReadString(length)
    \/ \E maxLength \in (0..MaxCount) \cup {CSTRING_MAX} : ReadCString(maxLength)
    \/ \E length \in 0..MaxCount : ReadBytes(length)
    \/ \E bytes \in 0..MaxCount : Skip(bytes)
    \/ \E boundary \in 1..MaxBoundary : Align(boundary)
    \/ \E o \in -1..MaxCursorLen + 1 : SetOffset(o)
    \/ \E length \in 0..MaxCount : Slice(length)

Spec == Init /\ [][Next]_vars

\* ------------------------------------------- parse calls on the event loop
\* Two parse calls whose asynchronous steps may alternate.  A call suspends
\* at `await file.arrayBuffer()` only; everything after it runs without
\* interruption, so buf .. starts are the locals of the one call that runs.
Calls == {1, 2}
Instances == {1, 2}
\* new JwwParser() and new JwwParser({strictMode: true, skipInvalidEntities: false})
ParserOptions ==
    {[strictMode |-> FALSE, skipInvalidEntities |-> TRUE],
     [strictMode |-> TRUE, skipInvalidEntities |-> FALSE]}
\* a file that decodes, a file whose last record is cut short and a legacy
\* file of one line
ConcurrentFiles ==
    {File(JWW_SIGNATURE, 1, generateTestLine \o generateTestCircle),
     File(JWW_SIGNATURE, 1, generateTestLine \o truncatedText),
     File(JwwData_MAGIC, 1, layeredLine(1))}
Pending == [status |-> "pending"]

ConcurrentInit ==
    /\ call = "parse"
    /\ buf = <<>>
    /\ strictMode = FALSE
    /\ skipInvalidEntities = TRUE
    /\ pc = "idle"
    /\ offset = 0
    /\ header = NoHeader
    /\ layers = <<>>
    /\ i = 0
    /\ entities = <<>>
    /\ outcome = "none"
    /\ lastTag = -1
    /\ termSeen = FALSE
    /\ thrown = NoThrow
    /\ result = "none"
    /\ arg = 0
    /\ starts = <<>>
    /\ parsers \in [Instances -> ParserOptions]
    /\ tasks \in [Calls -> [file : ConcurrentFiles, isFile : BOOLEAN,
                             instance : Instances, state : {"new"},
                             overlapped : {FALSE}, settled : {Pending}]]
    /\ running = 0
    /\ document = Null
    /\ loaded = Null
    /\ viewport = Null
    /\ canvas = Null
    /\ gestures = 0
    /\ writer = Null
    /\ NoApplication

\* the synchronous part of call t starts: new JwwBinaryReader(buffer) and
\* the locals of parse, parseLayers and parseEntities
StartedTo(t, buffer, options) ==
    /\ running' = t
    /\ tasks' = [tasks EXCEPT ![t].state = "running"]
    /\ buf' = buffer
    /\ strictMode' = options.strictMode
    /\ skipInvalidEntities' = options.skipInvalidEntities
    /\ pc' = "start"
    /\ offset' = 0
    /\ header' = NoHeader
    /\ layers' = <<>>
    /\ i' = 0
    /\ entities' = newEntities(entities)
    /\ outcome' = "none"
    /\ lastTag' = -1
    /\ termSeen' = FALSE
    /\ thrown' = NoThrow
    /\ result' = "none"
    /\ starts' = <<>>
    /\ UNCHANGED <<appVars, viewVars, call, arg, parsers>>

\* parse(buffer) is called with an ArrayBuffer: nothing is awaited
CallWithBuffer(t) ==
    /\ running = 0 /\ tasks[t].state = "new" /\ ~tasks[t].isFile
    /\ StartedTo(t, tasks[t].file, parsers[tasks[t].instance])

\* parse(file) is called with a File and suspends at file.arrayBuffer()
CallWithFile(t) ==
    /\ running = 0 /\ tasks[t].state = "new" /\ tasks[t].isFile
    /\ tasks' = [u \in Calls |->
                    IF u = t THEN [tasks[u] EXCEPT !.state = "awaiting"]
                    ELSE IF tasks[u].state = "awaiting"
                    THEN [tasks[u] EXCEPT !.overlapped = TRUE]
                    ELSE tasks[u]]
    /\ UNCHANGED <<appVars, viewVars, buf, strictMode, skipInvalidEntities, call, pc, offset, header,
                   layers, i, entities, outcome, lastTag, termSeen, thrown, result,
                   arg, starts, parsers, running>>

\* the awaited arrayBuffer() of call t is delivered
Resume(t) ==
    /\ running = 0 /\ tasks[t].state = "awaiting"
    /\ StartedTo(t, tasks[t].file, parsers[tasks[t].instance])

\* what the promise of the running call settles with
settlement ==
    IF pc = "done"
    THEN [status |-> "done", header |-> header, layers |-> layers,
          entities |-> entities]
    ELSE [status |-> "failed", thrown |-> thrown]

\* the running call returns its document or raises its error
Settle ==
    /\ running # 0 /\ pc \in {"done", "failed"}
    /\ tasks' = [tasks EXCEPT ![running].state = "settled",
                              ![running].settled = settlement]
    /\ running' = 0
    /\ pc' = "idle"
    /\ UNCHANGED <<appVars, viewVars, buf, strictMode, skipInvalidEntities, call, offset, header,
                   layers, i, entities, outcome, lastTag, termSeen, thrown, result,
                   arg, starts, parsers>>

ConcurrentNext ==
    \/ \E t \in Calls : CallWithBuffer(t)
    \/ \E t \in Calls : CallWithFile(t)
    \/ \E t \in Calls : Resume(t)
    \/ ParseHeader
    \/ ParseLayer
    \/ LayersDone
    \/ ParseEntity
    \/ EntitiesDone
    \/ Settle

ConcurrentSpec == ConcurrentInit /\ [][ConcurrentNext]_vars

\* ------------------------------------------------ numbers of the viewer
\* A JavaScript number is kept as an exact fraction num / den in lowest
\* terms with den >= 0: den = 0 stands for Infinity (num = 1), -Infinity
\* (num = -1) and NaN (num = 0).
Abs(n) == IF n < 0 THEN -n ELSE n
Sign(n) == IF n < 0 THEN -1 ELSE IF n > 0 THEN 1 ELSE 0
RECURSIVE GCD(_, _)
GCD(a, b) == IF b = 0 THEN a ELSE GCD(b, a % b)
Reduced(n, d, g) == [num |-> n \div g, den |-> d \div g]
Number(n, d) ==
    IF d = 0 THEN [num |-> Sign(n), den |-> 0]
    ELSE IF d < 0 THEN Reduced(-n, -d, GCD(Abs(n), Abs(d)))
    ELSE Reduced(n, d, GCD(Abs(n), d))
Infinity == [num |-> 1, den |-> 0]
NaN == [num |-> 0, den |-> 0]
Zero == [num |-> 0, den |-> 1]
One == [num |-> 1, den |-> 1]
isNaN(a) == a.den = 0 /\ a.num = 0
isFinite(a) == a.den # 0
negate(a) == [num |-> -a.num, den |-> a.den]
plus(a, b) ==
    IF a.den = 0 /\ b.den = 0 THEN (IF a.num = b.num THEN a ELSE NaN)
    ELSE Number(a.num * b.den + b.num * a.den, a.den * b.den)
minus(a, b) == plus(a, negate(b))
times(a, b) == Number(a.num * b.num, a.den * b.den)
over(a, b) ==
    IF b.num < 0 THEN Number(-(a.num * b.den), -(a.den * b.num))
    ELSE Number(a.num * b.den, a.den * b.num)
lessThan(a, b) ==
    IF isNaN(a) \/ isNaN(b) THEN FALSE
    ELSE IF a.den = 0 /\ b.den = 0 THEN a.num < b.num
    ELSE a.num * b.den < b.num * a.den
mathMin(a, b) ==
    IF isNaN(a) \/ isNaN(b) THEN NaN ELSE IF lessThan(b, a) THEN b ELSE a
mathMax(a, b) ==
    IF isNaN(a) \/ isNaN(b) THEN NaN ELSE IF lessThan(a, b) THEN b ELSE a
mathAbs(a) == [num |-> Abs(a.num), den |-> a.den]

\* ------------------------------------------------------------- renderer
\* A JwwRenderer is the record rn of its fields document, viewport and
\* canvas; a method is the renderer it leaves.  The canvas keeps the size of
\* its bounding rectangle, the entities handed to renderEntity since the
\* background was last filled and the viewport the transform was set up from.
valueOf(c) == Number(c.num, c.den)
half(a) == over(a, Number(2, 1))

\* a layer check that also skips the entities whose layer has no record
isHidden_missingLayer(ls, entity) ==
    entity.base.layer >= Len(ls) \/ ~ls[entity.base.layer + 1].visible

\* render: layer && !layer.visible, layer being layers[entity.layer]
isHidden(ls, entity) ==
    entity.base.layer < Len(ls) /\ ~ls[entity.base.layer + 1].visible

\* render, the loop: the entities handed to renderEntity, in order
RECURSIVE renderEntities(_, _, _)
renderEntities(ls, es, drawn) ==
    IF es = <<>> THEN drawn
    ELSE renderEntities(ls, Tail(es),
                        IF isHidden(ls, Head(es)) THEN drawn
                        ELSE Append(drawn, Head(es)))

\* a render that also drops the entities it skipped from the document
render_pruning(rn) ==
    IF rn.document = Null THEN rn
    ELSE [rn EXCEPT !.document.entities =
                        renderEntities(rn.document.layers, rn.document.entities, <<>>),
                    !.canvas.drawn =
                        renderEntities(rn.document.layers, rn.document.entities, <<>>),
                    !.canvas.transform = rn.viewport]

\* JwwRenderer.render
render(rn) ==
    IF rn.document = Null THEN rn
    ELSE [rn EXCEPT !.canvas.drawn =
                        renderEntities(rn.document.layers, rn.document.entities, <<>>),
                    !.canvas.transform = rn.viewport]

\* JwwRenderer.setDocument
setDocument(rn, doc) == [rn EXCEPT !.document = doc]

\* JwwRenderer.setViewport: Object.assign(this.viewport, viewport)
setViewport(rn, vp) == [rn EXCEPT !.viewport = vp]

\* JwwRenderer.getEntityBounds
boundsOf(minX, minY, maxX, maxY) ==
    [minX |-> minX, minY |-> minY, maxX |-> maxX, maxY |-> maxY,
     width |-> minus(maxX, minX), height |-> minus(maxY, minY)]
roundBounds(cx, cy, radius) ==
    [minX |-> minus(cx, radius), minY |-> minus(cy, radius),
     maxX |-> plus(cx, radius), maxY |-> plus(cy, radius),
     width |-> times(radius, Number(2, 1)), height |-> times(radius, Number(2, 1))]
lineBounds(sx, sy, ex, ey) ==
    [minX |-> mathMin(sx, ex), minY |-> mathMin(sy, ey),
     maxX |-> mathMax(sx, ex), maxY |-> mathMax(sy, ey),
     width |-> mathAbs(minus(ex, sx)), height |-> mathAbs(minus(ey, sy))]
textBounds(x, y, estimatedWidth, height) ==
    [minX |-> x, minY |-> y, maxX |-> plus(x, estimatedWidth),
     maxY |-> plus(y, height), width |-> estimatedWidth, height |-> height]
getEntityBounds(entity) ==
    CASE entity.type = "line" ->
            lineBounds(valueOf(entity.startX), valueOf(entity.startY),
                       valueOf(entity.endX), valueOf(entity.endY))
      [] entity.type \in {"circle", "arc"} ->
            roundBounds(valueOf(entity.centerX), valueOf(entity.centerY),
                        valueOf(entity.radius))
      [] entity.type = "text" ->
            textBounds(valueOf(entity.x), valueOf(entity.y),
                       times(times(Number(Len(entity.text), 1), valueOf(entity.width)),
                             Number(6, 10)),
                       valueOf(entity.height))
      [] OTHER -> Null

\* calculateBounds, the loop: the extremes so far widened by bounds
widened(acc, bounds) ==
    IF bounds = Null THEN acc
    ELSE [minX |-> mathMin(acc.minX, bounds.minX),
          minY |-> mathMin(acc.minY, bounds.minY),
          maxX |-> mathMax(acc.maxX, bounds.maxX),
          maxY |-> mathMax(acc.maxY, bounds.maxY)]
RECURSIVE extremes(_, _)
extremes(es, acc) ==
    IF es = <<>> THEN acc
    ELSE extremes(Tail(es), widened(acc, getEntityBounds(Head(es))))
boundsOrNull(acc) ==
    IF ~isFinite(acc.minX) THEN Null
    ELSE boundsOf(acc.minX, acc.minY, acc.maxX, acc.maxY)
\* JwwRenderer.calculateBounds
calculateBounds(rn) ==
    IF rn.document = Null THEN Null
    ELSE IF Len(rn.document.entities) = 0 THEN Null
    ELSE boundsOrNull(extremes(rn.document.entities,
                               [minX |-> Infinity, minY |-> Infinity,
                                maxX |-> negate(Infinity), maxY |-> negate(Infinity)]))

\* JwwRenderer.fitToView once the bounds are known
fitted(rn, bounds, marginSize) ==
    LET scale == mathMin(over(times(Number(rn.canvas.rect.width, 1), marginSize),
                              bounds.width),
                         over(times(Number(rn.canvas.rect.height, 1), marginSize),
                              bounds.height))
    IN  [rn EXCEPT !.viewport.scale = scale,
                   !.viewport.offsetX =
                       times(negate(half(plus(bounds.minX, bounds.maxX))), scale),
                   !.viewport.offsetY =
                       times(half(plus(bounds.minY, bounds.maxY)), scale)]
fitToViewWith(rn, bounds, margin) ==
    IF bounds = Null THEN rn
    ELSE render(fitted(rn, bounds, minus(One, times(margin, Number(2, 1)))))
\* JwwRenderer.fitToView
fitToView(rn, margin) == fitToViewWith(rn, calculateBounds(rn), margin)

\* JwwRenderer.screenToWorld
screenToWorld(rn, screenX, screenY) ==
    [x |-> over(minus(minus(screenX, half(Number(rn.canvas.rect.width, 1))),
                      rn.viewport.offsetX), rn.viewport.scale),
     y |-> negate(over(minus(minus(screenY, half(Number(rn.canvas.rect.height, 1))),
                             rn.viewport.offsetY), rn.viewport.scale))]

\* JwwRenderer.zoomAt: the offsets adjusted once the scale is multiplied
zoomAdjusted(zoomed, worldBefore, worldAfter) ==
    [zoomed EXCEPT
        !.viewport.offsetX =
            plus(zoomed.viewport.offsetX,
                 times(minus(worldAfter.x, worldBefore.x), zoomed.viewport.scale)),
        !.viewport.offsetY =
            minus(zoomed.viewport.offsetY,
                  times(minus(worldAfter.y, worldBefore.y), zoomed.viewport.scale))]
zoomedBy(rn, zoomFactor) ==
    [rn EXCEPT !.viewport.scale = times(rn.viewport.scale, zoomFactor)]
zoomAtWith(rn, canvasX, canvasY, zoomed) ==
    render(zoomAdjusted(zoomed, screenToWorld(rn, canvasX, canvasY),
                        screenToWorld(zoomed, canvasX, canvasY)))
\* JwwRenderer.zoomAt; the canvas is at the top left of the window
JwwRenderer_zoomAt(rn, clientX, clientY, delta) ==
    zoomAtWith(rn, clientX, clientY,
               zoomedBy(rn, IF delta > 0 THEN Number(9, 10) ELSE Number(11, 10)))

\* JwwRenderer.resize: setupCanvas on the new bounding rectangle, then render
resize(rn, rect) == render([rn EXCEPT !.canvas.rect = rect])

\* ---------------------------------------------------- viewport controller
\* minScale: options.minScale ?? 0.01 and maxScale: options.maxScale ?? 100
minScale == Number(1, 100)
maxScale == Number(100, 1)

\* ViewportController.zoomAt
ViewportController_zoomAt(rn, clientX, clientY, zoomFactor) ==
    IF \/ lessThan(times(rn.viewport.scale, zoomFactor), minScale)
       \/ lessThan(maxScale, times(rn.viewport.scale, zoomFactor))
    THEN rn
    ELSE render(setViewport(rn,
            [rn.viewport EXCEPT
                !.offsetX = minus(rn.viewport.offsetX,
                                  times(minus(clientX, half(Number(rn.canvas.rect.width, 1))),
                                        minus(zoomFactor, One))),
                !.offsetY = minus(rn.viewport.offsetY,
                                  times(minus(clientY, half(Number(rn.canvas.rect.height, 1))),
                                        minus(zoomFactor, One))),
                !.scale = times(rn.viewport.scale, zoomFactor)]))

\* ViewportController.pan
pan(rn, dx, dy) ==
    render(setViewport(rn, [rn.viewport EXCEPT !.offsetX = plus(rn.viewport.offsetX, dx),
                                               !.offsetY = plus(rn.viewport.offsetY, dy)]))

\* the viewport a renderer is constructed with and resetView sets
InitialViewport == [scale |-> One, offsetX |-> Zero, offsetY |-> Zero, rotation |-> Zero]
\* ViewportController.resetView
resetView(rn) == render(setViewport(rn, InitialViewport))

\* ------------------------------------------------------- viewer inputs
\* a layer table whose records carry the given flag bytes
RECURSIVE flaggedLayers(_)
flaggedLayers(flags) ==
    IF flags = <<>> THEN <<>>
    ELSE flaggedLayers(SubSeq(flags, 1, Len(flags) - 1))
         \o writeByte(flags[Len(flags)]) \o writeByte(7) \o writeByte(3)
         \o writeByte(0) \o writeString(LayerName(Len(flags) - 1), LAYER_NAME_LENGTH)
\* bit 0 of the flag byte: visible
LayerFlagLists == {<<0>>, <<1, 0>>, <<0, 1>>}
\* a line whose two ends are the same point
pointLikeLine ==
    commonHeader(1, 0, 1) \o writeInt32(100) \o writeInt32(-200)
    \o writeInt32(100) \o writeInt32(-200)
\* a line of one millimetre in each direction
shortLine ==
    commonHeader(1, 0, 1) \o writeInt32(0) \o writeInt32(0)
    \o writeInt32(100) \o writeInt32(100)
\* a circle and a text; a polyline only; a single point; a detail of one
\* millimetre; nothing
ViewStreams ==
    {generateTestCircle \o generateTestText, generateTestPolyline, pointLikeLine,
     shortLine, <<>>}
ViewFile(flags, stream) ==
    createJwwHeader(JWW_SIGNATURE, Len(flags), DEFAULT_COUNT) \o flaggedLayers(flags)
    \o stream \o writeByte(0)
\* lines on layers 0, 1 and 2 under every layer table, and the other streams
\* under one visible layer
ViewFiles ==
    {ViewFile(flags, layeredLine(0) \o layeredLine(1) \o layeredLine(2)) :
        flags \in LayerFlagLists}
    \cup {ViewFile(<<1>>, stream) : stream \in ViewStreams}
\* the sizes of the bounding rectangle of the canvas, in CSS pixels
Rects == {[width |-> 800, height |-> 600], [width |-> 400, height |-> 300]}
\* where the pointer is: right of and above the middle of either rectangle
Pointers == {[x |-> Number(600, 1), y |-> Number(150, 1)]}
\* 1 + zoomSpeed * (delta > 0 ? -1 : 1) with zoomSpeed 0.1, and a pinch that
\* doubles the distance of the two touches
ZoomFactors == {Number(9, 10), Number(11, 10), Number(2, 1)}
\* the movements of the pointer while it drags
Drags == {[dx |-> Number(-5, 1), dy |-> Number(20, 1)]}
\* the margin JwwViewer passes and the default of fitToView
MARGIN == Number(1, 10)
\* the zoom and pan gestures made on one view
MaxGestures == 2

\* ------------------------------------------------------------- the view
renderer == [document |-> document, viewport |-> viewport, canvas |-> canvas]

\* JwwViewer: a file is selected and parsed with the viewer's options, on a
\* page whose canvas has a new JwwRenderer
ViewInit ==
    /\ call = "parse"
    /\ buf \in ViewFiles
    /\ strictMode = FALSE
    /\ skipInvalidEntities = TRUE
    /\ pc = "start"
    /\ offset = 0
    /\ header = NoHeader
    /\ layers = <<>>
    /\ i = 0
    /\ entities = <<>>
    /\ outcome = "none"
    /\ lastTag = -1
    /\ termSeen = FALSE
    /\ thrown = NoThrow
    /\ result = "none"
    /\ arg = 0
    /\ starts = <<>>
    /\ parsers = <<>>
    /\ tasks = <<>>
    /\ running = 0
    /\ loaded = Null
    /\ document = Null
    /\ viewport = InitialViewport
    /\ canvas = [rect |-> [width |-> 800, height |-> 600], drawn |-> <<>>,
                 transform |-> Null]
    /\ gestures = 0
    /\ writer = Null
    /\ NoApplication

\* JwwViewer.handleFileSelect: const doc = await parser.parse(file);
\* setJwwDocument(doc)
DocumentLoaded ==
    /\ call = "parse" /\ pc = "done" /\ canvas # Null
    /\ loaded' = [header |-> header, layers |-> layers, entities |-> entities]
    /\ call' = "view"
    /\ pc' = "viewing"
    /\ UNCHANGED <<appVars, taskVars, document, viewport, canvas, gestures, buf, strictMode,
                   skipInvalidEntities, offset, header, layers, i, entities, outcome,
                   lastTag, termSeen, thrown, result, arg, starts>>

\* the state a method op of the renderer or of its controller that left
\* renderer rn behind and returned value leads to
ViewStepTo(op, rn, value) ==
    /\ pc = "viewing"
    /\ document' = rn.document
    /\ viewport' = rn.viewport
    /\ canvas' = rn.canvas
    /\ outcome' = op
    /\ result' = value
    /\ UNCHANGED <<appVars, taskVars, loaded, buf, strictMode, skipInvalidEntities, call, pc,
                   offset, header, layers, i, entities, lastTag, termSeen, thrown,
                   arg, starts>>

SetDocument ==
    /\ call = "view"
    /\ ViewStepTo("setDocument", setDocument(renderer, loaded), "undefined")
    /\ UNCHANGED gestures
Render ==
    /\ call = "view"
    /\ ViewStepTo("render", render(renderer), "undefined")
    /\ UNCHANGED gestures
CalculateBounds ==
    /\ call = "view"
    /\ ViewStepTo("calculateBounds", renderer, calculateBounds(renderer))
    /\ UNCHANGED gestures
FitToView ==
    /\ call = "view"
    /\ ViewStepTo("fitToView", fitToView(renderer, MARGIN), "undefined")
    /\ UNCHANGED gestures
RendererZoomAt(pointer, delta) ==
    /\ call = "view" /\ gestures < MaxGestures
    /\ ViewStepTo("JwwRenderer.zoomAt",
                  JwwRenderer_zoomAt(renderer, pointer.x, pointer.y, delta), "undefined")
    /\ gestures' = gestures + 1
ZoomAt(pointer, zoomFactor) ==
    /\ call = "view" /\ gestures < MaxGestures
    /\ ViewStepTo("zoomAt",
                  ViewportController_zoomAt(renderer, pointer.x, pointer.y, zoomFactor),
                  "undefined")
    /\ gestures' = gestures + 1
Pan(drag) ==
    /\ call = "view" /\ gestures < MaxGestures
    /\ ViewStepTo("pan", pan(renderer, drag.dx, drag.dy), "undefined")
    /\ gestures' = gestures + 1
ResetView ==
    /\ call = "view"
    /\ ViewStepTo("resetView", resetView(renderer), "undefined")
    /\ gestures' = 0
Resize(rect) ==
    /\ call = "view"
    /\ ViewStepTo("resize", resize(renderer, rect), "undefined")
    /\ UNCHANGED gestures

ViewNext ==
    \/ ParseHeader
    \/ ParseLayer
    \/ LayersDone
    \/ ParseEntity
    \/ EntitiesDone
    \/ DocumentLoaded
    \/ SetDocument
    \/ Render
    \/ CalculateBounds
    \/ FitToView
    \/ \E pointer \in Pointers, delta \in {-1, 1} : RendererZoomAt(pointer, delta)
    \/ \E pointer \in Pointers, zoomFactor \in ZoomFactors : ZoomAt(pointer, zoomFactor)
    \/ \E drag \in Drags : Pan(drag)
    \/ ResetView
    \/ \E rect \in Rects : Resize(rect)

ViewSpec == ViewInit /\ [][ViewNext]_vars

\* ------------------------------------------------------ JwwBinaryWriter
\* A JwwBinaryWriter is the record w of its fields buffer (a Uint8Array of
\* capacity bytes), position and capacity; a method is the writer it leaves.
\* the capacities a writer is constructed with
InitialCapacities == {1, 2}
\* the bytes a test writes into one writer
MaxWritten == 4

\* new Uint8Array(n)
Uint8Array(n) == [k \in 1..n |-> 0]
\* ensureCapacity: let newCapacity = this.capacity; while (...) newCapacity *= 2
RECURSIVE doubled(_, _)
doubled(newCapacity, requiredCapacity) ==
    IF newCapacity < requiredCapacity THEN doubled(newCapacity * 2, requiredCapacity)
    ELSE newCapacity
\* newBuffer.set(this.buffer.subarray(0, this.position))
grownTo(w, newCapacity) ==
    [buffer |-> [k \in 1..newCapacity |->
                    IF k <= w.position THEN w.buffer[k] ELSE 0],
     position |-> w.position, capacity |-> newCapacity]
\* JwwBinaryWriter.ensureCapacity
ensureCapacity(w, additionalBytes) ==
    IF w.position + additionalBytes > w.capacity
    THEN grownTo(w, doubled(w.capacity, w.position + additionalBytes))
    ELSE w
\* this.buffer[this.position++] = b for each b of bytes
stored(w, bytes) ==
    [w EXCEPT !.buffer = [k \in 1..Len(w.buffer) |->
                             IF w.position < k /\ k <= w.position + Len(bytes)
                             THEN bytes[k - w.position] ELSE w.buffer[k]],
              !.position = w.position + Len(bytes)]
\* a write method: ensureCapacity(bytes.length), then the stores
written(w, bytes) == stored(ensureCapacity(w, Len(bytes)), bytes)

\* is the whole buffer
getBuffer(w) == w.buffer
\* JwwBinaryWriter.getBytes
getBytes(w) == SubSeq(w.buffer, 1, w.position)
\* JwwBinaryWriter.size
size(w) == w.position

WriterInit ==
    /\ call = "writer"
    /\ buf = <<>>
    /\ strictMode = FALSE
    /\ skipInvalidEntities = TRUE
    /\ pc = "writing"
    /\ offset = 0
    /\ header = NoHeader
    /\ layers = <<>>
    /\ i = 0
    /\ entities = <<>>
    /\ outcome = "none"
    /\ lastTag = -1
    /\ termSeen = FALSE
    /\ thrown = NoThrow
    /\ result = "none"
    /\ arg = 0
    /\ starts = <<>>
    /\ parsers = <<>>
    /\ tasks = <<>>
    /\ running = 0
    /\ document = Null
    /\ loaded = Null
    /\ viewport = Null
    /\ canvas = Null
    /\ gestures = 0
    /\ NoApplication
    \* new JwwBinaryWriter(initialCapacity)
    /\ \E initialCapacity \in InitialCapacities :
          writer = [buffer |-> Uint8Array(initialCapacity), position |-> 0,
                    capacity |-> initialCapacity]

\* the state a method op of the writer that left writer w behind and
\* returned value leads to
WriterStepTo(op, w, value) ==
    /\ pc = "writing"
    /\ w.position <= MaxWritten
    /\ writer' = w
    /\ outcome' = op
    /\ result' = value
    /\ UNCHANGED <<ctlVars, uiVars, taskVars, viewVars, buf, strictMode,
                   skipInvalidEntities, call, pc, offset, header, layers, i, entities,
                   lastTag, termSeen, thrown, arg, starts>>

WriteByte(value) ==
    /\ call = "writer"
    /\ WriterStepTo("writeByte", written(writer, writeByte(value)), "undefined")
WriteUInt16(value) ==
    /\ call = "writer"
    /\ WriterStepTo("writeUInt16", written(writer, writeUInt16(value)), "undefined")
WriteInt32(value) ==
    /\ call = "writer"
    /\ WriterStepTo("writeInt32", written(writer, writeInt32(value)), "undefined")
WriteString(value, fixedLength) ==
    /\ call = "writer"
    /\ WriterStepTo("writeString", written(writer, writeString(value, fixedLength)),
                    "undefined")
WriterSkip(count) ==
    /\ call = "writer"
    /\ WriterStepTo("skip", written(writer, writerSkip(count)), "undefined")
\* setPosition throws outside 0..capacity
SetPosition(position) ==
    /\ call = "writer" /\ position <= writer.capacity
    /\ WriterStepTo("setPosition", [writer EXCEPT !.position = position], "undefined")
Clear ==
    /\ call = "writer"
    /\ WriterStepTo("clear", [writer EXCEPT !.position = 0], "undefined")
GetBuffer ==
    /\ call = "writer"
    /\ WriterStepTo("getBuffer", writer, getBuffer(writer))
GetBytes ==
    /\ call = "writer"
    /\ WriterStepTo("getBytes", writer, getBytes(writer))
Size ==
    /\ call = "writer"
    /\ WriterStepTo("size", writer, size(writer))

WriterNext ==
    \/ \E value \in {255} : WriteByte(value)
    \/ \E value \in {513} : WriteUInt16(value)
    \/ \E value \in {-2} : WriteInt32(value)
    \/ \E fixedLength \in {0, 3} : WriteString(<<74, 87>>, fixedLength)
    \/ \E count \in {0, 2} : WriterSkip(count)
    \/ \E position \in 0..MaxWritten : SetPosition(position)
    \/ Clear
    \/ GetBuffer
    \/ GetBytes
    \/ Size

WriterSpec == WriterInit /\ [][WriterNext]_vars

\* ------------------------------------------- ViewportController listeners
\* A controller is the record of its renderer and of its fields isDragging
\* and lastTouchDistance; disposed records that dispose() was called on it.
\* A listener is a function object: bind makes a new one at every call, told
\* apart by id.  The movement of the pointer since the last position is part
\* of the event.
MaxControllers == 2
MaxEvents == 3
\* zoomSpeed: options.zoomSpeed ?? 0.1
zoomSpeed == Number(1, 10)

\* Function.prototype.bind: the n-th function object made
bind(handler, self, n) == [handler |-> handler, self |-> self, id |-> n]

\* EventTarget.addEventListener: a (type, callback) pair already in the list
\* is not added again
addEventListener(ls, type, callback) ==
    IF \E k \in 1..Len(ls) : ls[k] = [type |-> type, listener |-> callback]
    THEN ls
    ELSE Append(ls, [type |-> type, listener |-> callback])

\* EventTarget.removeEventListener: removes the pair with this very callback
removeEventListener(ls, type, callback) ==
    SelectSeq(ls, LAMBDA l : l # [type |-> type, listener |-> callback])

\* the registrations of setupEventListeners with enableZoom and enablePan,
\* in the order of the code; the contextmenu listener is an arrow function
Registrations ==
    <<[type |-> "wheel", handler |-> "handleWheel"],
      [type |-> "mousedown", handler |-> "handleMouseDown"],
      [type |-> "mousemove", handler |-> "handleMouseMove"],
      [type |-> "mouseup", handler |-> "handleMouseUp"],
      [type |-> "mouseleave", handler |-> "handleMouseUp"],
      [type |-> "touchstart", handler |-> "handleTouchStart"],
      [type |-> "touchmove", handler |-> "handleTouchMove"],
      [type |-> "touchend", handler |-> "handleTouchEnd"],
      [type |-> "touchcancel", handler |-> "handleTouchEnd"],
      [type |-> "contextmenu", handler |-> "preventDefault"],
      [type |-> "resize", handler |-> "handleResize"]>>
\* the removals of dispose, in the order of the code
Removals == SelectSeq(Registrations, LAMBDA r : r.type # "contextmenu")

\* ViewportController.setupEventListeners of controller self, n functions
\* having been bound before
RECURSIVE registered(_, _, _, _)
registered(ls, regs, self, n) ==
    IF regs = <<>> THEN ls
    ELSE registered(addEventListener(ls, Head(regs).type,
                                     bind(Head(regs).handler, self, n + 1)),
                    Tail(regs), self, n + 1)
setupEventListeners(ls, self, n) == registered(ls, Registrations, self, n)

\* a dispose that removes whatever the controller registered
dispose_own(ls, self, n) == SelectSeq(ls, LAMBDA l : l.listener.self # self)

\* ViewportController.dispose of controller self: each removeEventListener is
\* handed this.handler.bind(this), a function bound at that moment
RECURSIVE removed(_, _, _, _)
removed(ls, regs, self, n) ==
    IF regs = <<>> THEN ls
    ELSE removed(removeEventListener(ls, Head(regs).type,
                                     bind(Head(regs).handler, self, n + 1)),
                 Tail(regs), self, n + 1)
dispose(ls, self, n) == removed(ls, Removals, self, n)

\* handleWheel: zoomFactor = 1 + zoomSpeed * (delta > 0 ? -1 : 1)
handleWheel(c, e) ==
    [c EXCEPT !.renderer =
        ViewportController_zoomAt(c.renderer, e.x, e.y,
            plus(One, times(zoomSpeed, IF e.deltaY > 0 THEN negate(One) ELSE One)))]
handleMouseDown(c, e) ==
    IF e.button # 0 THEN c ELSE [c EXCEPT !.isDragging = TRUE]
handleMouseMove(c, e) ==
    IF ~c.isDragging THEN c ELSE [c EXCEPT !.renderer = pan(c.renderer, e.dx, e.dy)]
handleMouseUp(c) == [c EXCEPT !.isDragging = FALSE]
handleTouchStart(c, e) ==
    IF e.touches = 1 THEN [c EXCEPT !.isDragging = TRUE]
    ELSE IF e.touches = 2
    THEN [c EXCEPT !.isDragging = FALSE, !.lastTouchDistance = e.distance]
    ELSE c
handleTouchMove(c, e) ==
    IF e.touches = 1 /\ c.isDragging
    THEN [c EXCEPT !.renderer = pan(c.renderer, e.dx, e.dy)]
    ELSE IF e.touches = 2
    THEN [c EXCEPT
            !.renderer =
                IF c.lastTouchDistance > 0
                THEN ViewportController_zoomAt(c.renderer, e.x, e.y,
                        Number(e.distance, c.lastTouchDistance))
                ELSE c.renderer,
            !.lastTouchDistance = e.distance]
    ELSE c
handleTouchEnd(c) == [c EXCEPT !.isDragging = FALSE, !.lastTouchDistance = 0]
\* handleResize: renderer.resize() on the bounding rectangle of the canvas
handleResize(c) == [c EXCEPT !.renderer = resize(c.renderer, c.renderer.canvas.rect)]

\* the call of a listener
handle(c, handler, e) ==
    CASE handler = "handleWheel" -> handleWheel(c, e)
      [] handler = "handleMouseDown" -> handleMouseDown(c, e)
      [] handler = "handleMouseMove" -> handleMouseMove(c, e)
      [] handler = "handleMouseUp" -> handleMouseUp(c)
      [] handler = "handleTouchStart" -> handleTouchStart(c, e)
      [] handler = "handleTouchMove" -> handleTouchMove(c, e)
      [] handler = "handleTouchEnd" -> handleTouchEnd(c)
      [] handler = "handleResize" -> handleResize(c)
      [] OTHER -> c

\* the browser dispatches e: the listeners of its type run in the order of
\* their registration
RECURSIVE dispatchEvent(_, _, _)
dispatchEvent(ls, cs, e) ==
    IF ls = <<>> THEN cs
    ELSE IF Head(ls).type # e.type THEN dispatchEvent(Tail(ls), cs, e)
    ELSE dispatchEvent(Tail(ls),
                       [cs EXCEPT ![Head(ls).listener.self] =
                            handle(@, Head(ls).listener.handler, e)],
                       e)

\* an event of the given type at the pointer, with a movement of the drag
Event(type, deltaY, touches, distance) ==
    [type |-> type, deltaY |-> deltaY, button |-> 0, touches |-> touches,
     distance |-> distance, x |-> Number(600, 1), y |-> Number(150, 1),
     dx |-> Number(-5, 1), dy |-> Number(20, 1)]
\* a wheel step either way, the mouse events, touches of one finger and of
\* two fingers moving apart, the context menu and a resize of the window
Events ==
    {Event("wheel", deltaY, 0, 0) : deltaY \in {-100, 100}}
    \cup {Event(type, 0, 0, 0) :
            type \in {"mousedown", "mousemove", "mouseup", "mouseleave", "touchend",
                      "touchcancel", "contextmenu", "resize"}}
    \cup {Event("touchstart", 0, touches, 10) : touches \in {1, 2}}
    \cup {Event("touchmove", 0, touches, 20) : touches \in {1, 2}}

\* a page with a canvas and no controller yet
ControllerInit ==
    /\ call = "controller"
    /\ buf = <<>>
    /\ strictMode = FALSE
    /\ skipInvalidEntities = TRUE
    /\ pc = "listening"
    /\ offset = 0
    /\ header = NoHeader
    /\ layers = <<>>
    /\ i = 0
    /\ entities = <<>>
    /\ outcome = "none"
    /\ lastTag = -1
    /\ termSeen = FALSE
    /\ thrown = NoThrow
    /\ result = "none"
    /\ arg = 0
    /\ starts = <<>>
    /\ parsers = <<>>
    /\ tasks = <<>>
    /\ running = 0
    /\ document = Null
    /\ loaded = Null
    /\ viewport = Null
    /\ canvas = Null
    /\ gestures = 0
    /\ writer = Null
    /\ NoApplication

\* new ViewportController(canvas, new JwwRenderer(canvas)): the constructor
\* ends with setupEventListeners
Construct ==
    /\ call = "controller" /\ Len(controllers) < MaxControllers
    /\ controllers' =
          Append(controllers,
                 [renderer |-> [document |-> Null, viewport |-> InitialViewport,
                                canvas |-> [rect |-> [width |-> 800, height |-> 600],
                                            drawn |-> <<>>, transform |-> Null]],
                  isDragging |-> FALSE, lastTouchDistance |-> 0,
                  disposed |-> FALSE])
    /\ listeners' = setupEventListeners(listeners, Len(controllers) + 1, binds)
    /\ binds' = binds + Len(Registrations)
    /\ UNCHANGED <<handled, events, writer, uiVars, coreVars, taskVars, viewVars>>

\* controller.dispose()
Dispose(self) ==
    /\ call = "controller" /\ self <= Len(controllers)
    /\ ~controllers[self].disposed
    /\ controllers' = [controllers EXCEPT ![self].disposed = TRUE]
    /\ listeners' = dispose(listeners, self, binds)
    /\ binds' = binds + Len(Removals)
    /\ UNCHANGED <<handled, events, writer, uiVars, coreVars, taskVars, viewVars>>

\* the user or the browser raises an event on the canvas or the window
Dispatch(e) ==
    /\ call = "controller" /\ events < MaxEvents
    /\ controllers' = dispatchEvent(listeners, controllers, e)
    /\ handled' = Len(SelectSeq(listeners, LAMBDA l : l.type = e.type))
    /\ events' = events + 1
    /\ UNCHANGED <<listeners, binds, writer, uiVars, coreVars, taskVars, viewVars>>

ControllerNext ==
    \/ Construct
    \/ \E self \in 1..MaxControllers : Dispose(self)
    \/ \E e \in Events : Dispatch(e)

ControllerSpec == ControllerInit /\ [][ControllerNext]_vars

\* ------------------------------------------------------------- JwwViewer
\* The component once mounted: ui is its React state, loads the calls of
\* handleFileSelect in the order they were made, each at its pending await
\* ("validate", "parse") or "settled".  A file is what the component sees
\* of it: its name, its size, what validate answers and the Document parse
\* resolves to (Null when parse rejects).  State updates of one continuation
\* are applied together; the document effect runs before the next update.
MaxLoads == 2

\* the line of layer n a test file holds
lineOfLayer(n) ==
    [type |-> "line",
     base |-> [layer |-> n, color |-> n * 2, lineType |-> n + 4,
               lineWidth |-> [num |-> 100 * (n + 1), den |-> 100], group |-> n + 8],
     startX |-> [num |-> 0, den |-> 100], startY |-> [num |-> 0, den |-> 100],
     endX |-> [num |-> 1000 * (n + 1), den |-> 100],
     endY |-> [num |-> 1000 * (n + 1), den |-> 100]]
\* the Document of a file of n layers with one line on each
documentOfLines(n) ==
    [header |-> [NoHeader EXCEPT !.signature = JWW_SIGNATURE, !.layerCount = n],
     layers |-> [k \in 1..n |-> defaultLayer(k - 1)],
     entities |-> [k \in 1..n |-> lineOfLayer(k - 1)]]
\* a well-formed file of n layers and n lines: header block, layer table,
\* line records and the terminator byte
LineFile(name, n) ==
    [name |-> name,
     size |-> HEADER_STRIDE + n * (1 + 1 + 1 + 1 + LAYER_NAME_LENGTH)
              + n * (8 + 4 + 4 + 4 + 4) + 1,
     valid |-> TRUE, document |-> documentOfLines(n)]
\* two drawings, a file cut inside its header block and a file that is no
\* JWW file
ViewerFiles ==
    {LineFile("a.jww", 1), LineFile("b.jww", 2),
     [name |-> "cut.jww", size |-> 100, valid |-> TRUE, document |-> Null],
     [name |-> "notes.txt", size |-> 5, valid |-> FALSE, document |-> Null]}

\* the useState initial values
InitialState ==
    [jwwDocument |-> Null, loading |-> FALSE, error |-> Null, fileName |-> "",
     fileInfo |-> Null]

\* setFileInfo(prev => prev ? { ...prev, fileSize: file.size } : null)
withFileSize(prev, file) ==
    IF prev # Null THEN [prev EXCEPT !.fileSize = file.size] ELSE Null

\* the document effect: setFileInfo({entityCount, layerCount, fileSize: 0})
infoOf(doc) ==
    [entityCount |-> Len(doc.entities), layerCount |-> Len(doc.layers),
     fileSize |-> 0]

\* catch: setError(message); finally: setLoading(false)
failedWith(state, message) ==
    [state EXCEPT !.error = [message |-> message], !.loading = FALSE]

\* the component is mounted: the init effect constructed the renderer
ViewerInit ==
    /\ call = "viewer"
    /\ buf = <<>>
    /\ strictMode = FALSE
    /\ skipInvalidEntities = TRUE
    /\ pc = "mounted"
    /\ offset = 0
    /\ header = NoHeader
    /\ layers = <<>>
    /\ i = 0
    /\ entities = <<>>
    /\ outcome = "none"
    /\ lastTag = -1
    /\ termSeen = FALSE
    /\ thrown = NoThrow
    /\ result = "none"
    /\ arg = 0
    /\ starts = <<>>
    /\ parsers = <<>>
    /\ tasks = <<>>
    /\ running = 0
    /\ document = Null
    /\ loaded = Null
    /\ viewport = InitialViewport
    /\ canvas = [rect |-> [width |-> 800, height |-> 600], drawn |-> <<>>,
                 transform |-> Null]
    /\ gestures = 0
    /\ writer = Null
    /\ controllers = <<>>
    /\ listeners = <<>>
    /\ handled = 0
    /\ binds = 0
    /\ events = 0
    /\ ui = InitialState
    /\ loads = <<>>
    /\ effectDue = FALSE
    /\ timers = 0
    /\ selected = Null

\* handleFileSelect up to `await JwwParser.validate(file)`
Select(file) ==
    /\ call = "viewer" /\ Len(loads) < MaxLoads /\ ~effectDue
    /\ ui' = [ui EXCEPT !.loading = TRUE, !.error = Null, !.fileName = file.name]
    /\ loads' = Append(loads, [file |-> file, at |-> "validate"])
    /\ selected' = file
    /\ UNCHANGED <<effectDue, timers, writer, ctlVars, coreVars, taskVars, viewVars>>

\* handleFileSelect of load k from the answer of validate to
\* `await parser.parse(file)`, or to the end when the file is not valid
Validated(k) ==
    /\ call = "viewer" /\ k <= Len(loads) /\ ~effectDue
    /\ loads[k].at = "validate"
    /\ IF loads[k].file.valid
       THEN /\ loads' = [loads EXCEPT ![k].at = "parse"]
            /\ ui' = ui
       ELSE /\ loads' = [loads EXCEPT ![k].at = "settled"]
            /\ ui' = failedWith(ui, "invalid")
    /\ UNCHANGED <<effectDue, timers, selected, writer, ctlVars, coreVars, taskVars,
                   viewVars>>

\* handleFileSelect of load k from the settlement of parse to the end
Parsed(k) ==
    /\ call = "viewer" /\ k <= Len(loads) /\ ~effectDue
    /\ loads[k].at = "parse"
    /\ loads' = [loads EXCEPT ![k].at = "settled"]
    /\ IF loads[k].file.document # Null
       THEN /\ ui' = [ui EXCEPT !.jwwDocument = loads[k].file.document,
                                !.fileInfo = withFileSize(@, loads[k].file),
                                !.loading = FALSE]
            \* parse resolves to a new object: the effect's dependency changed
            /\ effectDue' = TRUE
       ELSE /\ ui' = failedWith(ui, "parse")
            /\ effectDue' = effectDue
    /\ UNCHANGED <<timers, selected, writer, ctlVars, coreVars, taskVars, viewVars>>

\* the document effect: setDocument, render, the fitToView timer and
\* setFileInfo
Effect ==
    /\ call = "viewer" /\ effectDue /\ ui.jwwDocument # Null
    /\ document' = ui.jwwDocument
    /\ canvas' = render(setDocument(renderer, ui.jwwDocument)).canvas
    /\ timers' = timers + 1
    /\ ui' = [ui EXCEPT !.fileInfo = infoOf(ui.jwwDocument)]
    /\ effectDue' = FALSE
    /\ UNCHANGED <<loads, selected, writer, ctlVars, coreVars, taskVars, loaded,
                   viewport, gestures>>

\* setTimeout(() => controllerRef.current?.fitToView(0.1), 100) fires
Timeout ==
    /\ call = "viewer" /\ timers > 0
    /\ timers' = timers - 1
    /\ viewport' = fitToView(renderer, MARGIN).viewport
    /\ canvas' = fitToView(renderer, MARGIN).canvas
    /\ UNCHANGED <<ui, loads, effectDue, selected, writer, ctlVars, coreVars, taskVars,
                   document, loaded, gestures>>

ViewerNext ==
    \/ \E file \in ViewerFiles : Select(file)
    \/ \E k \in 1..MaxLoads : Validated(k)
    \/ \E k \in 1..MaxLoads : Parsed(k)
    \/ Effect
    \/ Timeout

ViewerSpec == ViewerInit /\ [][ViewerNext]_vars

\* ------------------------------------------------------------ properties
\* the buffer starts with the bytes of a supported magic
StartsWith(b, m) == Len(b) >= Len(m) /\ SubSeq(b, 1, Len(m)) = m
StartsWithMagic(b) ==
    \/ StartsWith(b, JWW_SIGNATURE)
    \/ StartsWith(b, JWS_SIGNATURE)
    \/ StartsWith(b, Jww_PREFIX \o Data_CONTINUATION)

\* the next action is an iteration of the entity loop in which parseEntity throws
EntityReadFails ==
    /\ pc = "entities" /\ moreEntities(offset)
    /\ parseEntity(Reader(offset)).r.error # "none"
\* where the cursor stands when that throw happens
FailureOffset == parseEntity(Reader(offset)).r.offset

LAYER_RECORD_SIZE == 1 + 1 + 1 + 1 + LAYER_NAME_LENGTH

\* the kind each supported tag stands for
EntityKind ==
    <<"line", "circle", "arc", "text", "ellipse", "dimension", "polyline">>

\* C1: once a terminator record has been read the entity list never changes
\* and the cursor never moves again (no later record is decoded).
C1_TerminatorStops ==
    [][termSeen => (entities' = entities /\ offset' = offset)]_vars

\* C2: a parse whose buffer does not start with a supported magic, or is
\* shorter than the 256-byte header stride, fails at the header whatever the
\* options are; it never reaches the layer table.
C2_HeaderFailureFatal ==
    (call = "parse" /\ pc # "start"
       /\ (~StartsWithMagic(buf) \/ Len(buf) < HEADER_STRIDE))
    => (pc = "failed" /\ result = "none" /\ thrown.error # "none"
        /\ layers = <<>> /\ entities = <<>>)
C2_Witness ==
    /\ pc = "failed" /\ thrown.error = "eof"
    /\ ~strictMode /\ skipInvalidEntities
    /\ StartsWithMagic(buf) /\ Len(buf) >= 31 /\ Len(buf) < HEADER_STRIDE

\* C3: under strictMode no entity read failure is recovered by a skip.
C3_StrictNeverRecovers == strictMode => outcome # "recovered"

\* C4: with strictMode and skipInvalidEntities both false, an iteration in
\* which the entity read fails ends parse with an error and no document.
C4_NoSilentDrop ==
    [][(EntityReadFails /\ ~strictMode /\ ~skipInvalidEntities)
       => (pc' = "failed" /\ result' = "none" /\ thrown'.error # "none"
           /\ thrown'.wrapped)]_vars
C4_Witness ==
    /\ pc = "failed" /\ outcome = "threw" /\ lastTag \in 1..7
    /\ ~strictMode /\ ~skipInvalidEntities /\ Len(entities) >= 1

\* C5: with skipInvalidEntities, an iteration in which the entity read fails
\* appends nothing, keeps the list, moves the cursor from where the read
\* failed by min(64, remaining) and stays in the loop.
C5_RecoverySkip ==
    [][(EntityReadFails /\ skipInvalidEntities)
       => (/\ entities' = entities
           /\ pc' = "entities"
           /\ offset' = FailureOffset + Min(64, Len(buf) - FailureOffset))]_vars
C5_Witness ==
    /\ pc = "entities" /\ outcome = "recovered" /\ lastTag = 4
    /\ Len(entities) >= 1 /\ entities[1].type = "line"
    /\ moreEntities(offset)

\* C6: a record whose tag is outside 0x00..0x07 always ends as a skip: it
\* is never the record at which parse fails or a recovery starts.
C6_UnknownAlwaysSkipped ==
    (lastTag > 7) => (outcome = "unknown" /\ pc # "failed")

\* C7: the file whose entity stream is an unknown-tag common header
\* immediately followed by one line record decodes, with
\* skipInvalidEntities, to exactly that line.
C7_File == File(JWW_SIGNATURE, 1, unknownRecord(0) \o generateTestLine)
C7_UnknownThenLine ==
    (call = "parse" /\ skipInvalidEntities /\ buf = C7_File /\ pc = "done")
    => (Len(entities) = 1 /\ entities[1].type = "line")

\* C8: a document is returned only with exactly header.layerCount layers,
\* numbered by their position.
C8_LayerTableSize ==
    pc = "done"
    => (/\ Len(layers) = header.layerCount
        /\ \A k \in 1..Len(layers) : layers[k].number = k - 1)
C8_Witness ==
    /\ pc = "done" /\ strictMode
    /\ Len(buf) < HEADER_STRIDE + LAYER_RECORD_SIZE * header.layerCount
    /\ header.layerCount = 16

C11_FileInfoNeverRaises ==
    (call = "getFileInfo" /\ pc # "start")
    => (pc = "returned" /\ thrown = NoThrow /\ result.fileSize = Len(buf))

\* C12 as stated: whenever parse fails, whatever the options are, the error
\* it raises is the wrapping "Failed to parse JWW file: <cause>".
C12_AlwaysWrapped ==
    (call = "parse" /\ pc = "failed") => (thrown.error # "none" /\ thrown.wrapped)
\* C12 amended: whenever parse fails it raises one error; without strictMode
\* it is the wrapping "Failed to parse JWW file: <cause>", with strictMode it
\* is the underlying error itself, unwrapped.
C12_WrappedUnlessStrict ==
    (call = "parse" /\ pc = "failed")
    => (/\ thrown.error # "none"
        /\ thrown.wrapped = ~strictMode
        /\ result = "none")
C12_Witness ==
    /\ call = "parse" /\ pc = "failed" /\ strictMode
    /\ thrown.error = "signature" /\ ~thrown.wrapped

\* C13 as stated: a successful header decode leaves the cursor at 256 after
\* consuming 26 bytes of fields (31 with the legacy signature); align(b)
\* leaves the position at the smallest multiple of b not below the prior
\* position and does nothing when already aligned.
C13_Stride26 ==
    [][/\ (call = "parse" /\ pc = "start" /\ pc' = "layers")
          => (/\ offset' = 256
              /\ parseHeader(Reader(0)).fields.offset
                 = IF StartsWith(buf, Jww_PREFIX) THEN 31 ELSE 26)
       /\ (call = "cursor" /\ pc = "reading" /\ outcome' = "align")
          => (/\ offset' % arg' = 0 /\ offset' >= offset /\ offset' - offset < arg'
              /\ (offset % arg' = 0 => (offset' = offset /\ pc' = "reading")))]_vars
\* C13 amended: the same with the widths the reads add up to, 28 bytes of
\* fields for a 3-byte signature and 33 for the legacy signature and its
\* separator.
C13_Stride28 ==
    [][/\ (call = "parse" /\ pc = "start" /\ pc' = "layers")
          => (/\ offset' = 256
              /\ parseHeader(Reader(0)).fields.offset
                 = IF StartsWith(buf, Jww_PREFIX) THEN 33 ELSE 28)
       /\ (call = "cursor" /\ pc = "reading" /\ outcome' = "align")
          => (/\ offset' % arg' = 0 /\ offset' >= offset /\ offset' - offset < arg'
              /\ (offset % arg' = 0 => (offset' = offset /\ pc' = "reading")))]_vars
C13_Witness ==
    /\ call = "parse" /\ pc = "layers" /\ outcome = "header" /\ offset = 256
    /\ header.signature = Jww_PREFIX /\ StartsWith(buf, JwwData_MAGIC)

\* the byte the file holds k bytes after its signature
HeaderByte(k) == buf[(IF StartsWith(buf, Jww_PREFIX) THEN 8 ELSE 3) + k + 1]
LayerCountByte == HeaderByte(2 + 1 + 4 + 4 + 4 + 4 + 2 + 2)
GroupCountByte == HeaderByte(2 + 1 + 4 + 4 + 4 + 4 + 2 + 2 + 1)

\* C14: once the header is decoded, layerCount and groupCount are the
\* header's two count bytes with 16 in place of 0, already when the layer
\* loop starts; a document decoded from a layerCount byte of 0 has exactly
\* 16 layers.
C14_CountDefaults ==
    (call = "parse" /\ pc \in {"layers", "entities", "done"})
    => (/\ header.layerCount = (IF LayerCountByte = 0 THEN 16 ELSE LayerCountByte)
        /\ header.groupCount = (IF GroupCountByte = 0 THEN 16 ELSE GroupCountByte)
        /\ (pc = "done" /\ LayerCountByte = 0) => Len(layers) = 16)
C14_Witness ==
    /\ call = "parse" /\ pc = "done" /\ LayerCountByte = 0 /\ GroupCountByte = 0
    /\ header.layerCount = 16 /\ header.groupCount = 16 /\ Len(layers) = 16

\* C15: every step keeps the entities already in the list, unchanged and in
\* place, and adds at most one at the end; the records the entities were
\* decoded from start at strictly increasing offsets, in list order.
C15_AppendOnly ==
    [][/\ Len(entities') \in {Len(entities), Len(entities) + 1}
       /\ SubSeq(entities', 1, Len(entities)) = entities
       /\ Len(starts') = Len(entities')
       /\ \A j, k \in 1..Len(starts') : j < k => starts'[j] < starts'[k]
       /\ \A k \in 1..Len(starts') :
             entities'[k].type = EntityKind[getUint8(starts'[k])]]_vars
C15_Witness ==
    /\ Len(entities) = 2 /\ outcome = "recovered" /\ starts[1] < starts[2]
    /\ entities[1].type = "line" /\ entities[2].type = "circle"

\* the kinds types.ts declares
JwwEntityType ==
    {"line", "circle", "arc", "ellipse", "text", "dimension", "point", "solid",
     "hatch", "polyline", "block"}
\* the switch of parseEntity, run on tag with the cursor in the middle of
\* the header's padding: a run of zero bytes long enough for the payload of
\* every kind
DispatchOnPadding(tag) ==
    dispatch(Reader(HEADER_STRIDE \div 2),
             [layer |-> 0, color |-> 0, lineType |-> 0,
              lineWidth |-> [num |-> 0, den |-> 100], group |-> 0], tag)
\* some tag makes the switch return an entity of this kind
Dispatched(kind) ==
    \E tag \in 0..255 :
        /\ DispatchOnPadding(tag).r.error = "none"
        /\ DispatchOnPadding(tag).entity # Null
        /\ DispatchOnPadding(tag).entity.type = kind

\* C16: each of the eleven entity kinds has a tag that the decoder
\* dispatches to a payload decoder producing an entity of that kind.
C16_ElevenKinds ==
    (call = "parse" /\ Len(buf) >= HEADER_STRIDE)
    => \A kind \in JwwEntityType : Dispatched(kind)

\* C17: every entity in the list has the kind its record's tag stands for
\* (0x01 line, 0x02 circle, 0x03 arc, 0x04 text, 0x05 ellipse, 0x06
\* dimension, 0x07 polyline) and carries the layer, color, lineType and group
\* bytes and the lineWidth u16 / 100 of the common header of that record.
C17_KindAndCommonHeader ==
    \A k \in 1..Len(entities) :
        /\ getUint8(starts[k]) \in 1..7
        /\ entities[k].type
           = <<"line", "circle", "arc", "text", "ellipse", "dimension",
               "polyline">>[getUint8(starts[k])]
        /\ entities[k].base
           = [layer |-> getUint8(starts[k] + 1),
              color |-> getUint8(starts[k] + 2),
              lineType |-> getUint8(starts[k] + 3),
              lineWidth |-> [num |-> getUint16(starts[k] + 4), den |-> 100],
              group |-> getUint8(starts[k] + 6)]
C17_Witness ==
    /\ pc = "done" /\ Len(entities) = 2
    /\ entities[1].base.layer = 1 /\ entities[2].base.layer = 2
    /\ entities[1].base.lineWidth.num = 200 /\ entities[2].base.lineWidth.num = 300
    /\ entities[1].base.group = 9 /\ entities[2].base.group = 10

\* C18: in the entity loop a record is read exactly when more than 4 bytes
\* remain; with at most 4 bytes left (or the cursor at or beyond the end)
\* the loop ends and parse returns the document without touching the
\* cursor, the list or raising anything, whatever the options are.
C18_TrailingBytesIgnored ==
    [][(call = "parse" /\ pc = "entities")
       => IF Len(buf) - offset > 4
          THEN /\ pc' \in {"entities", "failed"}
               /\ outcome' \in {"entity", "terminator", "unknown", "recovered", "threw"}
          ELSE /\ pc' = "done" /\ result' = "document" /\ thrown' = NoThrow
               /\ offset' = offset /\ entities' = entities]_vars
C18_Witness ==
    /\ call = "parse" /\ pc = "done" /\ strictMode /\ ~skipInvalidEntities
    /\ Len(buf) - offset \in 2..4 /\ Len(entities) = 1

\* the operations that consume a width known before they run
WidthOps ==
    {"readByte", "readSByte", "readUInt16", "readInt16", "readUInt32",
     "readInt32", "readFloat", "readDouble", "readString", "readBytes", "skip"}
\* a read or skip of arg' bytes returns exactly when they fit, having
\* advanced by arg'; otherwise it throws the out-of-bounds error
WidthRule ==
    (call = "cursor" /\ pc = "reading" /\ outcome' \in WidthOps)
    => IF offset + arg' <= Len(buf)
       THEN pc' = "reading" /\ offset' = offset + arg'
       ELSE pc' = "failed" /\ thrown'.error = "eof"
\* readCString throws when stepping over the terminator would leave the
\* cursor beyond the end of the buffer
CStringRule ==
    (call = "cursor" /\ pc = "reading" /\ outcome' = "readCString"
       /\ offset + cstringLength(offset, arg') + 1 > Len(buf))
    => (pc' = "failed" /\ thrown'.error = "eof")

\* C19: every fixed-width read, and skip, succeeds exactly when position +
\* width <= buffer length and then advances by that width, failing with the
\* out-of-bounds error otherwise; NUL-terminated text reading fails when it
\* would pass the buffer end.
C19_BoundsChecked == [][WidthRule /\ CStringRule]_vars

\* C20: the first read of a cursor constructed on the bytes the writer
\* produced for v returns v: writeInt16 then readInt16, writeUInt16 then
\* readUInt16, writeInt32 then readInt32, negatives and both extremes
\* included.
C20_IntegerRoundTrip ==
    [][(call = "cursor" /\ pc = "reading" /\ offset = 0)
       => /\ \A v \in Int16Values :
               (buf = writeInt16(v) /\ outcome' = "readInt16")
               => (pc' = "reading" /\ result' = v /\ offset' = Len(buf))
          /\ \A v \in UInt16Values :
               (buf = writeUInt16(v) /\ outcome' = "readUInt16")
               => (pc' = "reading" /\ result' = v /\ offset' = Len(buf))
          /\ \A v \in Int32Values :
               (buf = writeInt32(v) /\ outcome' = "readInt32")
               => (pc' = "reading" /\ result' = v /\ offset' = Len(buf))]_vars
C20_Witness ==
    /\ call = "cursor" /\ pc = "reading" /\ outcome = "readInt32"
    /\ buf = writeInt32(-2147483647 - 1) /\ result = -2147483647 - 1
    /\ offset = Len(buf)

\* C21: every polyline in the list has exactly the number of points its
\* record declares, each with the coordinates stored at its place in the
\* record, and closed = bit 0 of the record's flags byte; all the declared
\* points lie inside the buffer.
C21_PolylinePoints ==
    \A k \in 1..Len(entities) :
        entities[k].type = "polyline"
        => /\ Len(entities[k].points) = getUint16(starts[k] + 8)
           /\ starts[k] + 12 + 8 * getUint16(starts[k] + 8) <= Len(buf)
           /\ entities[k].closed = (getUint8(starts[k] + 10) % 2 = 1)
           /\ \A j \in 1..Len(entities[k].points) :
                 entities[k].points[j]
                 = [x |-> [num |-> getInt32(starts[k] + 12 + 8 * (j - 1)), den |-> 100],
                    y |-> [num |-> getInt32(starts[k] + 16 + 8 * (j - 1)), den |-> 100]]
C21_Witness ==
    /\ pc = "done" /\ Len(entities) = 2
    /\ entities[1].type = "polyline" /\ entities[1].closed
    /\ Len(entities[1].points) = 2 /\ entities[1].points[2].y.num = -1000
    /\ entities[2].type = "polyline" /\ ~entities[2].closed
    /\ entities[2].points = <<>>

\* C22: every text in the list has horizontalAlign among left, center,
\* right and verticalAlign among bottom, middle, top, whatever its
\* alignment-flags byte is.
C22_AlignmentDefined ==
    \A k \in 1..Len(entities) :
        entities[k].type = "text"
        => /\ entities[k].horizontalAlign \in {"left", "center", "right"}
           /\ entities[k].verticalAlign \in {"bottom", "middle", "top"}

\* the signed 32-bit integer the file holds k bytes after its signature
HeaderInt32(k) == getInt32((IF StartsWith(buf, Jww_PREFIX) THEN 8 ELSE 3) + k)
StoredScaleNum == HeaderInt32(2 + 1)
StoredScaleDen == HeaderInt32(2 + 1 + 4)

\* C23: once the header is decoded, header.scale is the stored numerator
\* over the stored denominator when that is not 0, and 1 when it is 0,
\* whatever the numerator is; it is always a ratio with a non-zero
\* denominator.
C23_ScaleOrOne ==
    (call = "parse" /\ pc \in {"layers", "entities", "done"})
    => (/\ header.scale = (IF StoredScaleDen = 0 THEN [num |-> 1, den |-> 1]
                           ELSE [num |-> StoredScaleNum, den |-> StoredScaleDen])
        /\ header.scale.den # 0)
C23_Witness ==
    /\ call = "parse" /\ pc = "done" /\ StoredScaleDen = 0 /\ StoredScaleNum = -3
    /\ header.scale = [num |-> 1, den |-> 1]

\* the signed 32-bit integer stored at offset o, over 100
Hundredths(o) == [num |-> getInt32(o), den |-> 100]
\* the 32-bit length fields of an entity of each kind, in record order
\* after the 8-byte common header
LengthFields(e) ==
    CASE e.type = "line" -> <<e.startX, e.startY, e.endX, e.endY>>
      [] e.type = "circle" -> <<e.centerX, e.centerY, e.radius>>
      [] e.type = "arc" -> <<e.centerX, e.centerY, e.radius>>
      [] e.type = "ellipse" -> <<e.centerX, e.centerY, e.radiusX, e.radiusY>>
      [] e.type = "text" -> <<e.x, e.y>>
      [] e.type = "dimension" ->
            <<e.startX, e.startY, e.endX, e.endY, e.textX, e.textY>>
      [] OTHER -> <<>>

\* C24: the header offsets and every 32-bit coordinate or radius of every
\* entity are the stored integer over 100, and a dimension's value is the
\* stored integer over 1000; none is the stored integer itself.
C24_FixedDivisors ==
    /\ (call = "parse" /\ pc \in {"layers", "entities", "done"})
       => (/\ header.offsetX = [num |-> HeaderInt32(2 + 1 + 4 + 4), den |-> 100]
           /\ header.offsetY = [num |-> HeaderInt32(2 + 1 + 4 + 4 + 4), den |-> 100])
    /\ \A k \in 1..Len(entities) :
          /\ \A f \in 1..Len(LengthFields(entities[k])) :
                LengthFields(entities[k])[f] = Hundredths(starts[k] + 8 + 4 * (f - 1))
          /\ entities[k].type = "dimension"
             => entities[k].value = [num |-> getInt32(starts[k] + 8 + 24), den |-> 1000]
C24_Witness ==
    /\ pc = "done" /\ header.offsetX = [num |-> 1000, den |-> 100]
    /\ Len(entities) = 2 /\ entities[1].type = "dimension"
    /\ entities[1].value = [num |-> 100000, den |-> 1000]
    /\ entities[2].startY = [num |-> -200, den |-> 100]

\* C25: after every successful header decode header.signature is "JWW" or
\* "JWS"; a file that starts with "JwwData" is reported as "JWW" and its
\* fields are read from offset 8 on.
C25_SignatureClass ==
    (call = "parse" /\ pc \in {"layers", "entities", "done"})
    => (/\ header.signature \in {JWW_SIGNATURE, JWS_SIGNATURE}
        /\ StartsWith(buf, Jww_PREFIX \o Data_CONTINUATION)
           => (/\ header.signature = JWW_SIGNATURE
               /\ header.version = getUint16(8)))

\* C28: validate returns false for every buffer shorter than 256 bytes (the
\* minimum file size of the validation).
C28_MinimumFileSize ==
    (call = "validate" /\ pc = "returned" /\ Len(buf) < 256)
    => (result = FALSE)

\* the layout width of the payload of the record of kind type whose payload
\* starts at offset o
PayloadWidth(type, o) ==
    CASE type = "line" -> 16
      [] type = "circle" -> 12
      [] type = "arc" -> 17
      [] type = "ellipse" -> 18
      [] type = "text" -> 49 + getUint16(o + 47)
      [] type = "dimension" -> 31 + getUint16(o + 29)
      [] type = "polyline" -> 4 + 8 * getUint16(o)
      [] type = "terminator" -> 0
      [] type = "unknown" -> 32
\* the kind of the record an iteration with this outcome decoded
DecodedKind(oc, ents) ==
    IF oc = "entity" THEN ents[Len(ents)].type ELSE oc
\* C29: an iteration of the entity loop that decodes a record, a terminator
\* or an unknown tag reads the tag at the offset the previous iteration left
\* and leaves the cursor 8 bytes of common header plus the layout width of
\* the payload further.
C29_RecordWidths ==
    [][(pc = "entities" /\ pc' = "entities"
        /\ outcome' \in {"entity", "terminator", "unknown"})
       => (/\ lastTag' = getUint8(offset)
           /\ offset' = offset + 8
                        + PayloadWidth(DecodedKind(outcome', entities'), offset + 8))]_vars
\* every kind of record has been decoded and followed by a line
C29_Witness ==
    /\ call = "parse" /\ pc = "done" /\ Len(entities) = 2
    /\ entities[1].type = "dimension" /\ entities[1].text = [string |-> <<53, 32, 109>>]
    /\ entities[2].type = "line"
    /\ starts[2] = starts[1] + 8 + 31 + 3

\* C26: whenever a parse call settles, also after its asynchronous steps
\* alternated with those of another call on the same or on another
\* instance, it settles with what parse yields on its own buffer and its
\* own instance's options when run by itself; a settled call is never
\* changed by the other call.
C26_SameAsAlone ==
    [][\A t \in Calls :
        /\ (tasks[t].state = "running" /\ tasks'[t].state = "settled")
           => (/\ buf = tasks[t].file
               /\ tasks'[t].settled
                  = parse(parsers[tasks[t].instance].strictMode,
                          parsers[tasks[t].instance].skipInvalidEntities))
        /\ tasks[t].state = "settled" => tasks'[t] = tasks[t]]_vars
\* two calls on one instance, on different files, both suspended at the
\* same time, have both settled, with different documents
C26_Witness ==
    /\ \A t \in Calls : tasks[t].state = "settled" /\ tasks[t].settled.status = "done"
    /\ tasks[1].instance = tasks[2].instance
    /\ tasks[1].file # tasks[2].file
    /\ \E t \in Calls : tasks[t].overlapped
    /\ tasks[1].settled # tasks[2].settled

\* the operations of the renderer and the controller that end with a render
Rendering == {"render", "fitToView", "JwwRenderer.zoomAt", "zoomAt", "pan",
              "resetView", "resize"}
\* C27: a step of setDocument, render, fitToView, zoomAt, pan, resetView,
\* resize or calculateBounds leaves the loaded Document as it is, header,
\* layers and entities, and the renderer's document is afterwards that
\* Document (or still none): only the viewport and the canvas change.
C27_DocumentUntouched ==
    [][call = "view"
       => (/\ loaded' = loaded
           /\ document' \in {Null, loaded}
           /\ document # Null => document' = document)]_vars
C27_Witness ==
    /\ call = "view" /\ document = loaded /\ outcome = "fitToView"
    /\ viewport.scale # One /\ canvas.drawn # <<>>
    /\ Len(canvas.drawn) < Len(loaded.entities)

\* C30: after a render the canvas holds, in order, exactly the entities of
\* the document whose layer index has no layer record or whose layer is
\* visible; no entity of an existing invisible layer is among them.
C30_LayerVisibility ==
    (call = "view" /\ outcome \in Rendering /\ document # Null
     /\ (outcome = "fitToView" => calculateBounds(renderer) # Null))
    => /\ canvas.drawn
          = SelectSeq(document.entities,
                      LAMBDA e : \/ e.base.layer >= Len(document.layers)
                                 \/ document.layers[e.base.layer + 1].visible)
       /\ \A k \in 1..Len(canvas.drawn) :
             canvas.drawn[k].base.layer < Len(document.layers)
             => document.layers[canvas.drawn[k].base.layer + 1].visible
\* a render drew the entity of a visible layer and the entity of a layer
\* without record, and left out the entity of an invisible layer
C30_Witness ==
    /\ call = "view" /\ outcome = "render" /\ document # Null
    /\ Len(document.entities) = 3 /\ Len(canvas.drawn) = 2
    /\ canvas.drawn[1].base.layer = 0 /\ canvas.drawn[2].base.layer = 2
    /\ Len(document.layers) = 2 /\ ~document.layers[2].visible

\* C31: getBuffer returns the bytes written and nothing else: as many bytes
\* as size() says, equal to what getBytes returns.
C31_TrimmedBuffer ==
    (call = "writer" /\ outcome = "getBuffer")
    => (Len(result) = size(writer) /\ result = getBytes(writer))

\* C32: parse terminates: every iteration of the entity loop (decode,
\* terminator, unknown-tag skip or recovery skip) leaves the cursor strictly
\* beyond where it started and within the buffer, or makes parse fail, so
\* the loop runs at most as many iterations as the buffer has bytes.
C32_LoopProgress ==
    [][(call = "parse" /\ pc = "entities" /\ moreEntities(offset))
       => ((offset' > offset /\ offset' <= Len(buf)) \/ pc' = "failed")]_vars
C32_Witness ==
    /\ call = "parse" /\ pc = "done" /\ skipInvalidEntities
    /\ outcome = "recovered" /\ Len(entities) >= 1

\* C33: whatever cursor operations ran, and whether they returned or threw,
\* the position is within 0..buffer length and remaining() is not negative;
\* and parse never leaves the position lower than it found it.
C33_CursorInRange ==
    /\ [](call \in {"cursor", "parse"}
          => (0 <= offset /\ offset <= Len(buf) /\ remainingAt(offset) >= 0))
    /\ [][call = "parse" => offset' >= offset]_vars

\* where the entity stream begins: after the header block and the table of
\* layerCount layer records
EntityStreamStart == HEADER_STRIDE + LAYER_RECORD_SIZE * header.layerCount

\* C34: entity decoding starts at 256 + 36 * layerCount: no iteration of the
\* entity loop starts at a lower offset, no entity in the list was decoded
\* from a lower offset, and a buffer that ends inside the layer table gives
\* an empty entity list.
C34_EntitiesAfterLayerTable ==
    (call = "parse" /\ pc \in {"entities", "done"})
    => /\ moreEntities(offset) => offset >= EntityStreamStart
       /\ \A k \in 1..Len(starts) : starts[k] >= EntityStreamStart
       /\ Len(buf) < EntityStreamStart => entities = <<>>

\* C35: without skipInvalidEntities, a file whose entity stream ends with
\* the terminator tag byte and k zero bytes of padding parses successfully
\* to exactly the entities before the terminator, whatever k is.
C35_PaddedTerminator ==
    \A k \in 0..MaxPadding :
        (call = "parse" /\ ~skipInvalidEntities /\ buf = PaddedFile(k))
        => /\ pc # "failed"
           /\ pc = "done" => (Len(entities) = 1 /\ entities[1].type = "line")

\* C36: on a buffer that parse decodes and getFileInfo reads, getFileInfo
\* reports the signature and the version of the parsed header, for the
\* three-byte signatures and for the legacy "JwwData." one.
C36_FileInfoMatchesHeader ==
    (call = "parse" /\ pc = "done" /\ getFileInfo.r.error = "none")
    => /\ getFileInfo.info.signature = header.signature
       /\ getFileInfo.info.version = header.version

\* a zoom by zoomFactor moves a scale that is outside the limits toward them
TowardLimits(scale, zoomFactor) ==
    \/ lessThan(scale, minScale) /\ lessThan(One, zoomFactor)
    \/ lessThan(maxScale, scale) /\ lessThan(zoomFactor, One)

\* C37: whatever zooms, pans, fitToView and resetView ran, the scale of the
\* viewport is a number within minScale..maxScale, and a zoom that moves the
\* scale toward that range is carried out, not rejected.
C37_ScaleWithinLimits ==
    (call = "view")
    => /\ isFinite(viewport.scale)
       /\ ~lessThan(viewport.scale, minScale)
       /\ ~lessThan(maxScale, viewport.scale)
       /\ \A pointer \in Pointers, zoomFactor \in ZoomFactors :
             TowardLimits(viewport.scale, zoomFactor)
             => ViewportController_zoomAt(renderer, pointer.x, pointer.y,
                                          zoomFactor).viewport.scale
                = times(viewport.scale, zoomFactor)

\* the controllers dispose() has not been called on
Live == {k \in 1..Len(controllers) : ~controllers[k].disposed}

\* C38: after dispose() no listener of the controller is left: an event
\* changes nothing in a disposed controller or its renderer, reaches no
\* listener when every controller is disposed, and reaches exactly one when
\* one controller is in use, whatever was constructed and disposed before.
C38_DisposeRemovesListeners ==
    [][(call = "controller" /\ events' = events + 1)
       => /\ \A k \in 1..Len(controllers) :
                controllers[k].disposed => controllers'[k] = controllers[k]
          /\ \A k \in 1..Len(controllers), l \in 1..Len(listeners) :
                controllers[k].disposed => listeners[l].listener.self # k
          /\ Cardinality(Live) = 0 => handled' = 0
          /\ Cardinality(Live) = 1 => handled' = 1]_vars

\* the loads that have not come to their end
InFlight == {k \in 1..Len(loads) : loads[k].at # "settled"}

\* C39: while a load is in flight the loading flag is set; and when two
\* loads of drawings have overlapped and both are over, the document shown
\* is the one of the file selected last, the one fileName names.
C39_LatestSelectionWins ==
    (call = "viewer")
    => /\ InFlight # {} => ui.loading
       /\ (/\ Len(loads) = 2 /\ InFlight = {} /\ ~effectDue
           /\ \A k \in 1..2 : loads[k].file.document # Null)
          => (ui.jwwDocument = selected.document /\ ui.fileName = selected.name)

\* the file whose Document is shown
Shown == CHOOSE file \in ViewerFiles : file.document = ui.jwwDocument

\* C40: once a load has succeeded and the updates and effects have run,
\* fileInfo holds the size of the file shown and the numbers of entities and
\* layers of its document, at the first load and at every later one.
C40_FileInfoOfLoadedFile ==
    (call = "viewer" /\ ui.jwwDocument # Null /\ ~effectDue /\ InFlight = {})
    => /\ ui.fileInfo # Null
       /\ ui.fileInfo.fileSize = Shown.size
       /\ ui.fileInfo.entityCount = Len(ui.jwwDocument.entities)
       /\ ui.fileInfo.layerCount = Len(ui.jwwDocument.layers)

=============================================================================
